---- MODULE Spec2Model ----
(***************************************************************************)
(* A model of the "modement" mix API (src/app/api/mix/route.ts, final      *)
(* version of the route, lines 1279-2572).                                 *)
(*                                                                         *)
(* Strings that the code inspects character by character (query            *)
(* parameters, the seed key) are sequences of one-character strings.       *)
(* 32-bit words are pairs <<hi, lo>> of 16-bit halves, so that the         *)
(* arithmetic mod 2^32 of stableHash and xorshift32 is computed exactly.   *)
(* Scores are held in half points (the code adds 0.5 x weight).            *)
(***************************************************************************)
EXTENDS Integers, Sequences, FiniteSets, TLC

(***************************************************************************)
(* The catalog: MOCK_TRACKS with the fields the final route reads.         *)
(***************************************************************************)
MOCK_TRACKS ==
  <<
    [id |-> "0q6LuUqGLUiCPP1cbdwFs3", name |-> "On Melancholy Hill", artist |-> "Gorillaz",
     tags |-> <<"focus", "throwback">>,
     profile |-> [focus_noise |-> "low", bpm |-> 118, energy |-> 55, valence |-> 60, sonicTag |-> "bright synths"]],
    [id |-> "7w87IxuO7BDcJ3YUqCyMTT", name |-> "Pumped Up Kicks", artist |-> "Foster The People",
     tags |-> <<"reset", "throwback">>,
     profile |-> [focus_noise |-> "low", bpm |-> 128, energy |-> 62, valence |-> 58, sonicTag |-> "whistled hook"]],
    [id |-> "60ZGteAEtPCnGE6zevgUcd", name |-> "Mountain Sound", artist |-> "Of Monsters and Men",
     tags |-> <<"reset", "focus">>,
     profile |-> [focus_noise |-> "medium", bpm |-> 132, energy |-> 70, valence |-> 72, sonicTag |-> "stomping drums"]],
    [id |-> "2ihCaVdNZmnHZWt0fvAM7B", name |-> "Little Talks", artist |-> "Of Monsters and Men",
     tags |-> <<"energy", "throwback">>,
     profile |-> [focus_noise |-> "high", bpm |-> 108, energy |-> 78, valence |-> 65, sonicTag |-> "brass accents"]],
    [id |-> "6K4t31amVTZDgR3sKmwUJJ", name |-> "Bloom", artist |-> "The Paper Kites",
     tags |-> <<"focus", "reset">>,
     profile |-> [focus_noise |-> "low", bpm |-> 92, energy |-> 35, valence |-> 55, sonicTag |-> "fingerpicked guitar"]],
    [id |-> "09019ss66clxe59SgrUD7j", name |-> "Budapest", artist |-> "George Ezra",
     tags |-> <<"reset">>,
     profile |-> [focus_noise |-> "low", bpm |-> 128, energy |-> 58, valence |-> 68, sonicTag |-> "warm guitar"]],
    [id |-> "5Hroj5K7vLpIG4FNCRIjbP", name |-> "Best Day Of My Life", artist |-> "American Authors",
     tags |-> <<"energy", "throwback">>,
     profile |-> [focus_noise |-> "medium", bpm |-> 92, energy |-> 82, valence |-> 88, sonicTag |-> "hand claps"]],
    [id |-> "6PwjJ58I4t7Mae9xfZ9l9v", name |-> "Somebody Told Me", artist |-> "The Killers",
     tags |-> <<"energy", "ramp">>,
     profile |-> [focus_noise |-> "medium", bpm |-> 140, energy |-> 85, valence |-> 60, sonicTag |-> "synth bass"]],
    [id |-> "3AJwUDP919kvQ9QcozQPxg", name |-> "Mr. Brightside", artist |-> "The Killers",
     tags |-> <<"energy", "throwback">>,
     profile |-> [focus_noise |-> "medium", bpm |-> 148, energy |-> 88, valence |-> 55, sonicTag |-> "guitar surge"]],
    [id |-> "3FtYbEfBqAlGO46NUDQSAt", name |-> "Electric Feel", artist |-> "MGMT",
     tags |-> <<"ramp", "throwback">>,
     profile |-> [focus_noise |-> "medium", bpm |-> 108, energy |-> 72, valence |-> 75, sonicTag |-> "funky bass"]],
    [id |-> "1jJci4qxiYcOHhQR247rEU", name |-> "Kids", artist |-> "MGMT",
     tags |-> <<"energy", "throwback">>,
     profile |-> [focus_noise |-> "medium", bpm |-> 124, energy |-> 80, valence |-> 68, sonicTag |-> "synth lead"]],
    [id |-> "6Z8R6UsFuGXGtiIxiD8ISb", name |-> "Safe and Sound", artist |-> "Capital Cities",
     tags |-> <<"energy", "ramp">>,
     profile |-> [focus_noise |-> "medium", bpm |-> 108, energy |-> 76, valence |-> 82, sonicTag |-> "brass hits"]],
    [id |-> "1eyzqe2QqGZUmfcPZtrIyt", name |-> "Midnight City", artist |-> "M83",
     tags |-> <<"energy", "ramp">>,
     profile |-> [focus_noise |-> "medium", bpm |-> 105, energy |-> 82, valence |-> 68, sonicTag |-> "synth epic"]],
    [id |-> "0GO8y8jQk1PkHzS31d699N", name |-> "Tongue Tied", artist |-> "Grouplove",
     tags |-> <<"energy", "ramp">>,
     profile |-> [focus_noise |-> "high", bpm |-> 112, energy |-> 86, valence |-> 78, sonicTag |-> "shouted vocals"]],
    [id |-> "01iyCAUm8EvOFqVWYJ3dVX", name |-> "Take a Walk", artist |-> "Passion Pit",
     tags |-> <<"energy", "ramp">>,
     profile |-> [focus_noise |-> "medium", bpm |-> 128, energy |-> 80, valence |-> 58, sonicTag |-> "layered synths"]],
    [id |-> "4prEPl61C8qZpeo3IkYSMl", name |-> "Sleepyhead", artist |-> "Passion Pit",
     tags |-> <<"energy">>,
     profile |-> [focus_noise |-> "high", bpm |-> 130, energy |-> 84, valence |-> 65, sonicTag |-> "vocal chop"]],
    [id |-> "0DwClY2t9YAWHBROMIgrXb", name |-> "Ho Hey", artist |-> "The Lumineers",
     tags |-> <<"reset", "throwback">>,
     profile |-> [focus_noise |-> "low", bpm |-> 82, energy |-> 68, valence |-> 75, sonicTag |-> "foot stomps"]],
    [id |-> "14AyWf6y7KlWWLfAjdKMKI", name |-> "Ophelia", artist |-> "The Lumineers",
     tags |-> <<"reset">>,
     profile |-> [focus_noise |-> "medium", bpm |-> 96, energy |-> 70, valence |-> 68, sonicTag |-> "stomping rhythm"]],
    [id |-> "2QjOHCTQ1Jl3zawyYOpxh6", name |-> "Sweater Weather", artist |-> "The Neighbourhood",
     tags |-> <<"focus", "evening">>,
     profile |-> [focus_noise |-> "low", bpm |-> 90, energy |-> 48, valence |-> 52, sonicTag |-> "reverb guitar"]],
    [id |-> "1YLJVmuzeM2YSUkCCaTNUB", name |-> "Dog Days Are Over", artist |-> "Florence + The Machine",
     tags |-> <<"energy">>,
     profile |-> [focus_noise |-> "high", bpm |-> 146, energy |-> 92, valence |-> 62, sonicTag |-> "harp glissando"]],
    [id |-> "4dyx5SzxPPaD8xQIid5Wjj", name |-> "Young Folks", artist |-> "Peter Bjorn and John",
     tags |-> <<"focus", "throwback">>,
     profile |-> [focus_noise |-> "low", bpm |-> 110, energy |-> 60, valence |-> 70, sonicTag |-> "whistle melody"]],
    [id |-> "4kbj5MwxO1bq9wjT5g9HaA", name |-> "Shut Up and Dance", artist |-> "WALK THE MOON",
     tags |-> <<"energy", "ramp">>,
     profile |-> [focus_noise |-> "high", bpm |-> 128, energy |-> 89, valence |-> 85, sonicTag |-> "funky bass"]],
    [id |-> "3e0yTP5trHBBVvV32jwXqF", name |-> "Anna Sun", artist |-> "WALK THE MOON",
     tags |-> <<"energy", "ramp">>,
     profile |-> [focus_noise |-> "high", bpm |-> 116, energy |-> 87, valence |-> 72, sonicTag |-> "raw vocals"]],
    [id |-> "1UqhkbzB1kuFwt2iy4h29Q", name |-> "Cough Syrup", artist |-> "Young the Giant",
     tags |-> <<"reset", "focus">>,
     profile |-> [focus_noise |-> "medium", bpm |-> 128, energy |-> 74, valence |-> 55, sonicTag |-> "building guitar"]]
  >>

(***************************************************************************)
(* Generic helpers.                                                        *)
(***************************************************************************)
Null == "null"

Range(s) == {s[i] : i \in DOMAIN s}

Includes(s, x) == \E i \in DOMAIN s : s[i] = x

\* the concatenation of ss[lo..hi], a sequence of sequences
RECURSIVE ConcatRange(_, _, _)
ConcatRange(ss, lo, hi) ==
  IF lo > hi THEN <<>>
  ELSE IF lo = hi THEN ss[lo]
  ELSE LET mid == (lo + hi) \div 2
       IN  ConcatRange(ss, lo, mid) \o ConcatRange(ss, mid + 1, hi)

Concat(ss) == ConcatRange(ss, 1, Len(ss))

\* the string made of cs[lo..hi], a sequence of strings
RECURSIVE JoinRange(_, _, _)
JoinRange(cs, lo, hi) ==
  IF lo > hi THEN ""
  ELSE IF lo = hi THEN cs[lo]
  ELSE LET mid == (lo + hi) \div 2
       IN  JoinRange(cs, lo, mid) \o JoinRange(cs, mid + 1, hi)

Join(cs) == JoinRange(cs, 1, Len(cs))

(***************************************************************************)
(* 32-bit words as <<hi, lo>>, each half in 0..65535.                      *)
(***************************************************************************)
W16 == 256 * 256

\* a ^ b on the lowest `bits` bits, bit by bit from the lowest
RECURSIVE XorBits(_, _, _)
XorBits(a, b, bits) ==
  IF bits = 0 THEN 0
  ELSE (((a % 2) + (b % 2)) % 2) + (2 * XorBits(a \div 2, b \div 2, bits - 1))

\* a ^ b on 16 bits
Xor16(a, b) == XorBits(a, b, 16)

Xor32(a, b) == <<Xor16(a[1], b[1]), Xor16(a[2], b[2])>>

\* x << k on 32 bits, for 0 < k < 16
Shl32(x, k) ==
  LET p == 2 ^ k
      q == 2 ^ (16 - k)
  IN  <<(x[1] % q) * p + (x[2] \div q), (x[2] % q) * p>>

\* x >>> k on 32 bits, for 16 <= k < 32
Shr32(x, k) == <<0, x[1] \div (2 ^ (k - 16))>>

\* (x + n) mod 2^32 for a small natural n: the effect of (seed + n) >>> 0
Add32(x, n) ==
  LET lo == x[2] + n
  IN  <<(x[1] + (lo \div W16)) % W16, lo % W16>>

\* Math.imul(h, k) for k < 2^25: the low 32 bits of the product
Imul(h, k) ==
  LET khi == k \div W16
      klo == k % W16
      low == h[2] * klo
  IN  <<((h[1] * klo) + (h[2] * khi) + (low \div W16)) % W16, low % W16>>

(***************************************************************************)
(* Character codes of the printable ASCII characters (charCodeAt).         *)
(***************************************************************************)
Printable ==
  << " ", "!", "QUOTE", "#", "$", "%", "&", "'", "(", ")", "*", "+", ",", "-", ".", "/",
     "0", "1", "2", "3", "4", "5", "6", "7", "8", "9", ":", ";", "<", "=", ">", "?",
     "@", "A", "B", "C", "D", "E", "F", "G", "H", "I", "J", "K", "L", "M", "N", "O",
     "P", "Q", "R", "S", "T", "U", "V", "W", "X", "Y", "Z", "[", "BACKSLASH", "]", "^", "_",
     "BACKTICK", "a", "b", "c", "d", "e", "f", "g", "h", "i", "j", "k", "l", "m", "n", "o",
     "p", "q", "r", "s", "t", "u", "v", "w", "x", "y", "z", "{", "|", "}", "~" >>

charCodeAt(c) == 31 + (CHOOSE i \in DOMAIN Printable : Printable[i] = c)

Digits == <<"0", "1", "2", "3", "4", "5", "6", "7", "8", "9">>

IsDigit(c) == Includes(Digits, c)

DigitValue(c) == (CHOOSE i \in DOMAIN Digits : Digits[i] = c) - 1

\* String(n) for a natural n: decimal digits without padding
RECURSIVE NumberToChars(_)
NumberToChars(n) ==
  IF n < 10 THEN <<Digits[n + 1]>>
  ELSE NumberToChars(n \div 10) \o <<Digits[(n % 10) + 1]>>

(***************************************************************************)
(* stableHash: 32-bit FNV-1a over the characters of s.                     *)
(***************************************************************************)
FNV_OFFSET_HI == 33052

FNV_OFFSET_LO == 40389

FNV_PRIME == 16777619

\* one turn of the loop: h ^= s.charCodeAt(i); h = Math.imul(h, 16777619)
HashStep(s, h, i) == Imul(Xor32(h, <<0, charCodeAt(s[i])>>), FNV_PRIME)

\* the turns lo..hi of the loop of stableHash; the range is split in halves and
\* the left half is evaluated before the right one is entered
RECURSIVE HashLoop(_, _, _, _)
HashLoop(s, acc, lo, hi) ==
  IF lo > hi THEN acc
  ELSE IF lo = hi THEN HashStep(s, acc, lo)
  ELSE LET mid  == (lo + hi) \div 2
           left == HashLoop(s, acc, lo, mid)
       IN  IF left = left THEN HashLoop(s, left, mid + 1, hi) ELSE left

stableHash(s) == HashLoop(s, <<FNV_OFFSET_HI, FNV_OFFSET_LO>>, 1, Len(s))

(***************************************************************************)
(* seededShuffle: Fisher-Yates driven by xorshift32.                       *)
(***************************************************************************)
\* x ^= x << k
XorShl(x, k) == Xor32(x, Shl32(x, k))

\* x ^= x >>> k
XorShr(x, k) == Xor32(x, Shr32(x, k))

\* x ^= x << 13; x ^= x >>> 17; x ^= x << 5
Xorshift32(x) == XorShl(XorShr(XorShl(x, 13), 17), 5)

\* Math.floor(((x >>> 0) / 4294967296) * n): exact for n < 2^21
RandIndex(x, n) == ((x[1] * n) + ((x[2] * n) \div W16)) \div W16

\* variant: a[i] = a[j] without the assignment back
SwapOneWay(a, i, j) == [a EXCEPT ![i] = a[j]]

Swap(a, i, j) == [a EXCEPT ![i] = a[j], ![j] = a[i]]

\* one turn of the loop for (i = a.length - 1; i > 0; i--), i counted from 0
\* as in the code; st holds the array a and the generator state x
SwapWithRandom(a, i, x1) ==
  [a |-> Swap(a, i + 1, RandIndex(x1, i + 1) + 1), x |-> x1]

ShuffleStep(st, i) == SwapWithRandom(st.a, i, Xorshift32(st.x))

\* the turns lo..hi of the loop of seededShuffle over an array of n elements,
\* turn k handling i = n - k
RECURSIVE ShuffleLoop(_, _, _, _)
ShuffleLoop(n, acc, lo, hi) ==
  IF lo > hi THEN acc
  ELSE IF lo = hi THEN ShuffleStep(acc, n - lo)
  ELSE LET mid  == (lo + hi) \div 2
           left == ShuffleLoop(n, acc, lo, mid)
       IN  IF left = left THEN ShuffleLoop(n, left, mid + 1, hi) ELSE left

seededShuffle(arr, seed) ==
  ShuffleLoop(Len(arr), [a |-> arr, x |-> seed], 1, Len(arr) - 1).a

(***************************************************************************)
(* Query parameters.  A parameter is Absent (searchParams.get gives null)  *)
(* or a sequence of characters.                                            *)
(***************************************************************************)
\* distinct from every sequence of characters, whose elements have length one
Absent == <<"ABSENT">>

Undefined == "undefined"

OrEmpty(raw) == IF raw = Absent THEN <<>> ELSE raw

Whitespace == {" ", "\t", "\n"}

RECURSIVE TrimStart(_)
TrimStart(s) ==
  IF s # <<>> /\ Head(s) \in Whitespace THEN TrimStart(Tail(s)) ELSE s

RECURSIVE TrimEnd(_)
TrimEnd(s) ==
  IF s # <<>> /\ s[Len(s)] \in Whitespace
  THEN TrimEnd(SubSeq(s, 1, Len(s) - 1))
  ELSE s

Trim(s) == TrimEnd(TrimStart(s))

UpperCase ==
  <<"A", "B", "C", "D", "E", "F", "G", "H", "I", "J", "K", "L", "M",
    "N", "O", "P", "Q", "R", "S", "T", "U", "V", "W", "X", "Y", "Z">>

LowerCase ==
  <<"a", "b", "c", "d", "e", "f", "g", "h", "i", "j", "k", "l", "m",
    "n", "o", "p", "q", "r", "s", "t", "u", "v", "w", "x", "y", "z">>

ToLowerChar(c) ==
  IF Includes(UpperCase, c)
  THEN LowerCase[CHOOSE i \in DOMAIN UpperCase : UpperCase[i] = c]
  ELSE c

ToLowerCase(s) == [i \in DOMAIN s |-> ToLowerChar(s[i])]

\* s.replace(/[\s-]+/g, "_"): every maximal run of whitespace and hyphens
\* becomes one underscore
ReplaceStep(s, acc, i) ==
  IF s[i] \in Whitespace \cup {"-"}
  THEN [out |-> IF acc.inRun THEN acc.out ELSE Append(acc.out, "_"),
        inRun |-> TRUE]
  ELSE [out |-> Append(acc.out, s[i]), inRun |-> FALSE]

\* the scan of the characters lo..hi of s
RECURSIVE ReplaceLoop(_, _, _, _)
ReplaceLoop(s, acc, lo, hi) ==
  IF lo > hi THEN acc
  ELSE IF lo = hi THEN ReplaceStep(s, acc, lo)
  ELSE LET mid  == (lo + hi) \div 2
           left == ReplaceLoop(s, acc, lo, mid)
       IN  IF left = left THEN ReplaceLoop(s, left, mid + 1, hi) ELSE left

ReplaceRuns(s) == ReplaceLoop(s, [out |-> <<>>, inRun |-> FALSE], 1, Len(s)).out

\* the regular expression /^([01]\d|2[0-3]):([0-5]\d)$/
TimePattern(s) ==
  /\ Len(s) = 5
  /\ \/ s[1] \in {"0", "1"} /\ IsDigit(s[2])
     \/ s[1] = "2" /\ s[2] \in {"0", "1", "2", "3"}
  /\ s[3] = ":"
  /\ s[4] \in {"0", "1", "2", "3", "4", "5"}
  /\ IsDigit(s[5])

\* the result null of parseTimeOverride
NoOverride == [isNull |-> TRUE, hours |-> 0, minutes |-> 0]

\* variant: the hour group written [0-2]\d, which lets 24:00 to 29:59 through
parseTimeOverrideLooseHour(time) ==
  IF time = Absent \/ time = <<>> THEN NoOverride
  ELSE LET t == Trim(time)
       IN  IF ~(/\ Len(t) = 5
                /\ t[1] \in {"0", "1", "2"} /\ IsDigit(t[2])
                /\ t[3] = ":"
                /\ t[4] \in {"0", "1", "2", "3", "4", "5"}
                /\ IsDigit(t[5]))
           THEN NoOverride
           ELSE [isNull  |-> FALSE,
                 hours   |-> (10 * DigitValue(t[1])) + DigitValue(t[2]),
                 minutes |-> (10 * DigitValue(t[4])) + DigitValue(t[5])]

parseTimeOverride(time) ==
  IF time = Absent \/ time = <<>> THEN NoOverride
  ELSE LET t == Trim(time)
       IN  IF ~TimePattern(t) THEN NoOverride
           ELSE [isNull  |-> FALSE,
                 hours   |-> (10 * DigitValue(t[1])) + DigitValue(t[2]),
                 minutes |-> (10 * DigitValue(t[4])) + DigitValue(t[5])]

normalizeSituation(raw) == ReplaceRuns(ToLowerCase(Trim(raw)))

aliasMap ==
  [ workout |-> "working_out", workingout |-> "working_out",
    working_out |-> "working_out", work_out |-> "working_out",
    gym |-> "working_out", exercise |-> "working_out",
    work |-> "working", working |-> "working", office |-> "working",
    study |-> "studying", studying |-> "studying", focus |-> "studying",
    homework |-> "studying",
    party |-> "party",
    dinner |-> "dinner", hangout |-> "dinner", hanging_out |-> "dinner",
    chill |-> "chill", late_night |-> "chill",
    auto |-> "auto" ] @@ ("" :> "auto")

\* What String(v) gives for the two values an object literal inherits under
\* an all-lower-case key: Object.prototype.constructor and __proto__.
ObjectFunction == "function Object() { [native code] }"

ObjectPrototype == "[object Object]"

\* obj[key] on an object literal: own properties first, then the properties
\* inherited from Object.prototype; undefined otherwise.
PropertyLookup(obj, key) ==
  IF key \in DOMAIN obj THEN obj[key]
  ELSE IF key = "constructor" THEN ObjectFunction
  ELSE IF key = "__proto__" THEN ObjectPrototype
  ELSE Undefined

getSituation(rawParam) ==
  LET raw        == OrEmpty(rawParam)
      normalized == normalizeSituation(raw)
      found      == PropertyLookup(aliasMap, Join(normalized))
      resolved   == IF found = Undefined THEN "auto" ELSE found
  IN  [situation |-> resolved, raw |-> raw, normalized |-> normalized]

getEngine(rawParam) ==
  LET raw == Join(Trim(OrEmpty(rawParam)))
  IN  IF raw = "spotify_ai" THEN "spotify_ai" ELSE "my_engine"

getTweak(rawParam) ==
  LET raw == Join(Trim(OrEmpty(rawParam)))
  IN  IF raw = "more_new" THEN "more_new"
      ELSE IF raw = "more_familiar" THEN "more_familiar"
      ELSE IF raw = "no_repeats" THEN "no_repeats"
      ELSE "none"

(***************************************************************************)
(* Time of day.                                                            *)
(***************************************************************************)
MinutesPerDay == 24 * 60

MsPerMinute == 60 * 1000

\* getChicagoMinutesNow: the wall-clock minute of the day in America/Chicago
\* of the instant `now`, where epochMinute is the Chicago minute of the day
\* at instant 0.
getChicagoMinutesNow(now, epochMinute) ==
  (epochMinute + (now \div MsPerMinute)) % MinutesPerDay

\* variant: the lower ends of the buckets taken as exclusive
getTimeBucketFromMinutesExclusive(mins) ==
  LET MORNING == 7 * 60
      MIDDAY  == 12 * 60
      EVENING == 17 * 60
      LATE    == 22 * 60
      TWO_AM  == 2 * 60
  IN  IF mins > MORNING /\ mins < MIDDAY THEN "morning"
      ELSE IF mins > MIDDAY /\ mins < EVENING THEN "midday"
      ELSE IF mins > EVENING /\ mins < LATE THEN "evening"
      ELSE IF mins > LATE \/ mins < TWO_AM THEN "late_night"
      ELSE "late_night"

getTimeBucketFromMinutes(mins) ==
  LET MORNING == 7 * 60
      MIDDAY  == 12 * 60
      EVENING == 17 * 60
      LATE    == 22 * 60
      TWO_AM  == 2 * 60
  IN  IF mins >= MORNING /\ mins < MIDDAY THEN "morning"
      ELSE IF mins >= MIDDAY /\ mins < EVENING THEN "midday"
      ELSE IF mins >= EVENING /\ mins < LATE THEN "evening"
      ELSE IF mins >= LATE \/ mins < TWO_AM THEN "late_night"
      ELSE "late_night"

\* hour12 formatting of the displayed local time: <<hour 1..12, minute, AM/PM>>
formatLocalTime(mins) ==
  LET h == mins \div 60
  IN  <<IF h % 12 = 0 THEN 12 ELSE h % 12, mins % 60, IF h < 12 THEN "AM" ELSE "PM">>

makeTrackUrl(id) == "https://open.spotify.com/track/" \o id

(***************************************************************************)
(* Block plans.                                                            *)
(***************************************************************************)
SITUATION_PRESETS ==
  [ working_out |-> <<
      [title |-> "Warm up", subtitle |-> "Ease into movement without rushing", intent |-> "ramp"],
      [title |-> "PR mode", subtitle |-> "Peak intensity for max effort", intent |-> "energy"],
      [title |-> "Keep moving", subtitle |-> "Steady tempo to maintain momentum", intent |-> "throwback"],
      [title |-> "Second wind", subtitle |-> "Fresh energy when you start to fade", intent |-> "discovery"],
      [title |-> "Cool down", subtitle |-> "Bring the intensity back down gradually", intent |-> "reset"] >>,
    working |-> <<
      [title |-> "Deep focus", subtitle |-> "Low distraction for sustained concentration", intent |-> "focus"],
      [title |-> "Low distraction", subtitle |-> "Steady, unobtrusive background energy", intent |-> "focus"],
      [title |-> "Steady tempo", subtitle |-> "Consistent rhythm to keep you grounded", intent |-> "ramp"],
      [title |-> "No lyrics bias", subtitle |-> "Instrumental or minimal vocals", intent |-> "focus"],
      [title |-> "Short reset", subtitle |-> "Brief mental break without losing flow", intent |-> "reset"] >>,
    studying |-> <<
      [title |-> "Deep focus", subtitle |-> "Low distraction for sustained concentration", intent |-> "focus"],
      [title |-> "Low distraction", subtitle |-> "Steady, unobtrusive background energy", intent |-> "focus"],
      [title |-> "Steady tempo", subtitle |-> "Consistent rhythm to keep you grounded", intent |-> "ramp"],
      [title |-> "No lyrics bias", subtitle |-> "Instrumental or minimal vocals", intent |-> "focus"],
      [title |-> "Short reset", subtitle |-> "Brief mental break without losing flow", intent |-> "reset"] >>,
    dinner |-> <<
      [title |-> "Dinner table", subtitle |-> "Conversational, warm background music", intent |-> "reset"],
      [title |-> "Background glow", subtitle |-> "Soft energy that fills the space", intent |-> "throwback"],
      [title |-> "Conversation friendly", subtitle |-> "Won't compete with voices", intent |-> "reset"],
      [title |-> "Soft classics", subtitle |-> "Familiar, comforting picks", intent |-> "throwback"],
      [title |-> "After dinner", subtitle |-> "Easy transition to relaxation", intent |-> "discovery"] >>,
    party |-> <<
      [title |-> "Kickoff", subtitle |-> "Set the tone with immediate energy", intent |-> "energy"],
      [title |-> "Hands up", subtitle |-> "Peak moments that move the room", intent |-> "energy"],
      [title |-> "Peak hour", subtitle |-> "Maximum intensity for the main event", intent |-> "ramp"],
      [title |-> "Afterparty", subtitle |-> "Keep the vibe going without peaking again", intent |-> "throwback"],
      [title |-> "Come down", subtitle |-> "Ease the energy back down", intent |-> "reset"] >>,
    chill |-> <<
      [title |-> "Slow lane", subtitle |-> "Low-key energy to help you settle", intent |-> "reset"],
      [title |-> "Late afternoon haze", subtitle |-> "Warm, drifting sounds", intent |-> "throwback"],
      [title |-> "Soft edges", subtitle |-> "Gentle textures, no hard hits", intent |-> "focus"],
      [title |-> "Window seat", subtitle |-> "Contemplative, introspective mood", intent |-> "discovery"],
      [title |-> "Quiet win", subtitle |-> "Calm satisfaction, no pressure", intent |-> "reset"] >> ]

\* the time-based plans of blockPlan's auto branch
BUCKET_PRESETS ==
  [ morning |-> <<
      [title |-> "If you want momentum", subtitle |-> "Start your day with energy", intent |-> "energy"],
      [title |-> "If you need a smooth start", subtitle |-> "Ease into your morning", intent |-> "ramp"],
      [title |-> "If you want deep focus", subtitle |-> "Lock in early", intent |-> "focus"],
      [title |-> "If you want something different", subtitle |-> "Fresh angle for morning", intent |-> "discovery"] >>,
    midday |-> <<
      [title |-> "If you want deep focus", subtitle |-> "Steady tracks for midday work", intent |-> "focus"],
      [title |-> "If you need a mental reset", subtitle |-> "Clear your head", intent |-> "reset"],
      [title |-> "If you need a push", subtitle |-> "Lift your energy", intent |-> "energy"],
      [title |-> "If you want something different", subtitle |-> "Fresh picks for afternoon", intent |-> "discovery"] >>,
    evening |-> <<
      [title |-> "If you want to unwind", subtitle |-> "Shift down from your day", intent |-> "reset"],
      [title |-> "If you want light focus", subtitle |-> "Evening concentration", intent |-> "focus"],
      [title |-> "If you want to move", subtitle |-> "Gentle evening energy", intent |-> "ramp"],
      [title |-> "If you want something different", subtitle |-> "Fresh sounds for evening", intent |-> "discovery"] >>,
    late_night |-> <<
      [title |-> "If you want sustained energy", subtitle |-> "Stay awake and alert", intent |-> "energy"],
      [title |-> "If you want to stay sharp", subtitle |-> "Late-night focus", intent |-> "focus"],
      [title |-> "If you want something familiar", subtitle |-> "Known tracks for tired moments", intent |-> "throwback"],
      [title |-> "If you want to wind down", subtitle |-> "Ease into calmer energy", intent |-> "reset"] >> ]

\* variant: the plan taken from the time bucket whatever the situation
blockPlanByBucketOnly(bucket, situation) ==
  IF bucket = "morning" THEN BUCKET_PRESETS.morning
  ELSE IF bucket = "midday" THEN BUCKET_PRESETS.midday
  ELSE IF bucket = "evening" THEN BUCKET_PRESETS.evening
  ELSE BUCKET_PRESETS.late_night

blockPlan(bucket, situation) ==
  IF situation # "auto"
  THEN \* SITUATION_PRESETS[situation] || []: a key that is no preset gives []
       IF situation \in DOMAIN SITUATION_PRESETS
       THEN SITUATION_PRESETS[situation]
       ELSE <<>>
  ELSE IF bucket = "morning" THEN BUCKET_PRESETS.morning
  ELSE IF bucket = "midday" THEN BUCKET_PRESETS.midday
  ELSE IF bucket = "evening" THEN BUCKET_PRESETS.evening
  ELSE BUCKET_PRESETS.late_night


\* the intents allowed per situation
ALLOWED_INTENTS ==
  [ auto        |-> {"focus", "energy", "ramp", "reset", "throwback", "discovery"},
    working_out |-> {"ramp", "energy", "throwback", "discovery", "reset"},
    working     |-> {"focus", "ramp", "reset"},
    studying    |-> {"focus", "ramp", "reset"},
    dinner      |-> {"reset", "throwback", "discovery"},
    party       |-> {"energy", "ramp", "throwback", "discovery", "reset"},
    chill       |-> {"reset", "throwback", "focus", "discovery"} ]
(***************************************************************************)
(* Scoring and selection.                                                  *)
(***************************************************************************)
\* variant: three points for a tag match
scoreTrackWeakMatch(t, intent, tweak) ==
  (IF Includes(t.tags, intent) THEN 3 ELSE 0)
  + (IF intent = "discovery" THEN 1 ELSE 0)
  + (IF tweak = "more_new"
     THEN (IF Includes(t.tags, "throwback") THEN -2 ELSE 2)
     ELSE IF tweak = "more_familiar"
          THEN (IF Includes(t.tags, "throwback") THEN 3 ELSE 0)
          ELSE 0)

\* variant: the discovery point given only to tracks not tagged discovery
scoreTrackLooseDiscovery(t, intent, tweak) ==
  (IF Includes(t.tags, intent) THEN 6 ELSE 0)
  + (IF intent = "discovery" /\ ~Includes(t.tags, intent) THEN 1 ELSE 0)
  + (IF tweak = "more_new"
     THEN (IF Includes(t.tags, "throwback") THEN -2 ELSE 2)
     ELSE IF tweak = "more_familiar"
          THEN (IF Includes(t.tags, "throwback") THEN 3 ELSE 0)
          ELSE 0)

scoreTrack(t, intent, tweak) ==
  (IF Includes(t.tags, intent) THEN 6 ELSE 0)
  + (IF intent = "discovery" THEN 1 ELSE 0)
  + (IF tweak = "more_new"
     THEN (IF Includes(t.tags, "throwback") THEN -2 ELSE 2)
     ELSE IF tweak = "more_familiar"
          THEN (IF Includes(t.tags, "throwback") THEN 3 ELSE 0)
          ELSE 0)

SITUATION_BIAS ==
  [ auto        |-> <<>>,
    working_out |-> [energy |-> 3, ramp |-> 2, reset |-> 1, throwback |-> 1],
    working     |-> [focus |-> 3, ramp |-> 1, reset |-> -2],
    studying    |-> [focus |-> 3, ramp |-> 1, reset |-> -2],
    dinner      |-> [reset |-> 3, throwback |-> 1, focus |-> -1],
    party       |-> [energy |-> 3, ramp |-> 2, throwback |-> 1, reset |-> -2],
    chill       |-> [reset |-> 3, focus |-> 1, throwback |-> 1, energy |-> -2] ]

\* variant: the large penalty kept for block 0 only
DuplicatePenaltyFirstBlockOnly(blockIndex) == IF blockIndex < 1 THEN 1000 ELSE 5

\* the penalty of a track already chosen in an earlier block, in points
DuplicatePenalty(blockIndex) == IF blockIndex < 3 THEN 1000 ELSE 5

\* variant: the weights applied whatever their sign
RECURSIVE BiasHalfPointsSigned(_, _, _)
BiasHalfPointsSigned(tags, situationBias, i) ==
  IF i > Len(tags) THEN 0
  ELSE (IF tags[i] \in DOMAIN situationBias THEN situationBias[tags[i]] ELSE 0)
       + BiasHalfPointsSigned(tags, situationBias, i + 1)

\* sum over the track's tags of situationBias[tag] when positive; each point
\* of weight is worth half a point of score, so the sum is in half points
RECURSIVE BiasHalfPoints(_, _, _)
BiasHalfPoints(tags, situationBias, i) ==
  IF i > Len(tags) THEN 0
  ELSE LET intentBoost == IF tags[i] \in DOMAIN situationBias
                          THEN situationBias[tags[i]] ELSE 0
       IN  (IF intentBoost > 0 THEN intentBoost ELSE 0)
           + BiasHalfPoints(tags, situationBias, i + 1)

\* the feature nudges of the five situations that have them, in points
FineTune(t, situation) ==
  LET p == t.profile
      B(c, v) == IF c THEN v ELSE 0
  IN  IF situation = "studying"
      THEN B(p.focus_noise = "low", 2) + B(p.focus_noise = "high", -2)
           + B(p.valence < 40, 1) + B(p.bpm < 90, 1)
      ELSE IF situation = "working_out"
      THEN B(p.energy < 70, -1) + B(p.bpm < 110, -1) + B(p.valence < 50, -1)
      ELSE IF situation = "party"
      THEN B(p.energy < 80, -1) + B(p.bpm < 120, -1) + B(p.valence < 60, -1)
      ELSE IF situation = "dinner"
      THEN B(p.energy > 60, -1) + B(p.bpm > 110, -1) + B(p.valence < 50, -1)
      ELSE IF situation = "chill"
      THEN B(p.energy > 60, -1) + B(p.bpm > 100, -1)
      ELSE 0

\* the score the map callback of pickTracksForIntent gives a track, in half
\* points
TrackScore(t, intent, tweak, situation, blockIndex, globalSeen) ==
  (2 * scoreTrack(t, intent, tweak))
  - (IF t.id \in globalSeen THEN 2 * DuplicatePenalty(blockIndex) ELSE 0)
  + (IF situation # "auto"
     THEN BiasHalfPoints(t.tags, SITUATION_BIAS[situation], 1)
          + (2 * FineTune(t, situation))
     ELSE 0)

\* variant: descending, equal scores in reverse order
SortByScoreDescTiesReversed(items) ==
  LET n == Len(items)
      Rank(k) == Cardinality({m \in 1..n :
                    \/ items[m].score > items[k].score
                    \/ items[m].score = items[k].score /\ m > k}) + 1
  IN  [r \in 1..n |-> items[CHOOSE k \in 1..n : Rank(k) = r]]

\* Array.prototype.sort((a, b) => b.score - a.score): stable, descending
SortByScoreDesc(items) ==
  LET n == Len(items)
      Rank(k) == Cardinality({m \in 1..n :
                    \/ items[m].score > items[k].score
                    \/ items[m].score = items[k].score /\ m < k}) + 1
  IN  [r \in 1..n |-> items[CHOOSE k \in 1..n : Rank(k) = r]]

\* variant: the first loop without the no_repeats test
FirstPassIgnoringSeen(ordered, tweak, acc, i) ==
  LET t == ordered[i].t
  IN  IF Len(acc.picked) >= 5 THEN acc
      ELSE [picked     |-> Append(acc.picked, t),
            seen       |-> acc.seen \cup {t.id},
            globalSeen |-> acc.globalSeen \cup {t.id}]

\* variant: the first loop without seen.add
FirstPassGlobalOnly(ordered, tweak, acc, i) ==
  LET t == ordered[i].t
  IN  IF Len(acc.picked) >= 5 THEN acc
      ELSE IF tweak = "no_repeats" /\ t.id \in acc.seen THEN acc
      ELSE [picked     |-> Append(acc.picked, t),
            seen       |-> acc.seen,
            globalSeen |-> acc.globalSeen \cup {t.id}]

\* one turn of the first loop: take in order, skipping seen tracks under
\* no_repeats, until five are picked
FirstPass(ordered, tweak, acc, i) ==
  LET t == ordered[i].t
  IN  IF Len(acc.picked) >= 5 THEN acc
      ELSE IF tweak = "no_repeats" /\ t.id \in acc.seen THEN acc
      ELSE [picked     |-> Append(acc.picked, t),
            seen       |-> acc.seen \cup {t.id},
            globalSeen |-> acc.globalSeen \cup {t.id}]

\* variant: the fallback loop still skipping the tracks of earlier blocks
BackfillSkippingSeen(ordered, acc, i) ==
  LET t == ordered[i].t
  IN  IF Len(acc.picked) >= 5 THEN acc
      ELSE IF t.id \in acc.seen THEN acc
      ELSE [acc EXCEPT !.picked = Append(@, t),
                       !.globalSeen = @ \cup {t.id}]

\* variant: the fallback loop taking the tracks already in this block too
BackfillAnyTrack(ordered, acc, i) ==
  LET t == ordered[i].t
  IN  IF Len(acc.picked) >= 5 THEN acc
      ELSE [acc EXCEPT !.picked = Append(@, t), !.globalSeen = @ \cup {t.id}]

\* one turn of the fallback loop: fill up from the same order, skipping only
\* the tracks already in this block
Backfill(ordered, acc, i) ==
  LET t == ordered[i].t
  IN  IF Len(acc.picked) >= 5 THEN acc
      ELSE IF \E k \in DOMAIN acc.picked : acc.picked[k].id = t.id THEN acc
      ELSE [acc EXCEPT !.picked = Append(@, t), !.globalSeen = @ \cup {t.id}]

\* the turns lo..hi of the first loop over the ordered tracks
RECURSIVE FirstLoop(_, _, _, _, _)
FirstLoop(ordered, tweak, acc, lo, hi) ==
  IF lo > hi THEN acc
  ELSE IF lo = hi THEN FirstPass(ordered, tweak, acc, lo)
  ELSE LET mid  == (lo + hi) \div 2
           left == FirstLoop(ordered, tweak, acc, lo, mid)
       IN  IF left = left THEN FirstLoop(ordered, tweak, left, mid + 1, hi) ELSE left

\* the turns lo..hi of the fallback loop over the ordered tracks
RECURSIVE BackfillLoop(_, _, _, _)
BackfillLoop(ordered, acc, lo, hi) ==
  IF lo > hi THEN acc
  ELSE IF lo = hi THEN Backfill(ordered, acc, lo)
  ELSE LET mid  == (lo + hi) \div 2
           left == BackfillLoop(ordered, acc, lo, mid)
       IN  IF left = left THEN BackfillLoop(ordered, left, mid + 1, hi) ELSE left

\* tracks.map((t) => ({ t, score })) over the shuffled tracks
ScoreAll(shuffled, intent, tweak, situation, blockIndex, globalSeen) ==
  [i \in DOMAIN shuffled |->
     [t |-> shuffled[i],
      score |-> TrackScore(shuffled[i], intent, tweak, situation, blockIndex, globalSeen)]]

\* the fallback loop, entered when the first loop left fewer than five
FillUp(ordered, first) ==
  IF Len(first.picked) < 5 THEN BackfillLoop(ordered, first, 1, Len(ordered)) ELSE first

\* the two loops over the ordered tracks
PickOrdered(ordered, tweak, seen, globalSeen) ==
  FillUp(ordered,
         FirstLoop(ordered, tweak,
                   [picked |-> <<>>, seen |-> seen, globalSeen |-> globalSeen],
                   1, Len(ordered)))

\* pickTracksForIntent over the catalog `tracks`: shuffle, score, sort, pick;
\* the result carries the two sets the code mutates in place
pickTracksForIntent(tracks, intent, tweak, seed, seen, situation, blockIndex, globalSeen) ==
  PickOrdered(SortByScoreDesc(ScoreAll(seededShuffle(tracks, seed), intent, tweak,
                                       situation, blockIndex, globalSeen)),
              tweak, seen, globalSeen)

\* the block made of the picks r of plan entry p
AddBlock(acc, p, idx, r) ==
  [blocks     |-> Append(acc.blocks,
                         [blockPlan |-> p, intent |-> p.intent,
                          picked |-> r.picked, idx |-> idx]),
   seen       |-> r.seen,
   globalSeen |-> r.globalSeen]

\* one turn of the synchronous plan.map of buildBlocksWithArtwork: the
\* selection of block idx with blockSeed = (seed + idx * 101) >>> 0, threading
\* seen and globalSeen from block to block
PickBlock(tracks, plan, tweak, seed, situation, acc, idx) ==
  AddBlock(acc, plan[idx + 1], idx,
           pickTracksForIntent(tracks, plan[idx + 1].intent, tweak,
                               Add32(seed, idx * 101), acc.seen, situation, idx,
                               acc.globalSeen))

\* the blocks lo..hi of the plan, in order
RECURSIVE PickLoop(_, _, _, _, _, _, _, _)
PickLoop(tracks, plan, tweak, seed, situation, acc, lo, hi) ==
  IF lo > hi THEN acc
  ELSE IF lo = hi THEN PickBlock(tracks, plan, tweak, seed, situation, acc, lo)
  ELSE LET mid  == (lo + hi) \div 2
           left == PickLoop(tracks, plan, tweak, seed, situation, acc, lo, mid)
       IN  IF left = left THEN PickLoop(tracks, plan, tweak, seed, situation, left, mid + 1, hi) ELSE left

PickBlocks(tracks, plan, tweak, seed, situation) ==
  PickLoop(tracks, plan, tweak, seed, situation,
           [blocks |-> <<>>, seen |-> {}, globalSeen |-> {}], 0, Len(plan) - 1)

\* the words of every block title, for String.prototype.includes on titles
TitleWords ==
  ("Warm up" :> <<"Warm", "up">>) @@
  ("PR mode" :> <<"PR", "mode">>) @@
  ("Keep moving" :> <<"Keep", "moving">>) @@
  ("Second wind" :> <<"Second", "wind">>) @@
  ("Cool down" :> <<"Cool", "down">>) @@
  ("Deep focus" :> <<"Deep", "focus">>) @@
  ("Low distraction" :> <<"Low", "distraction">>) @@
  ("Steady tempo" :> <<"Steady", "tempo">>) @@
  ("No lyrics bias" :> <<"No", "lyrics", "bias">>) @@
  ("Short reset" :> <<"Short", "reset">>) @@
  ("Dinner table" :> <<"Dinner", "table">>) @@
  ("Background glow" :> <<"Background", "glow">>) @@
  ("Conversation friendly" :> <<"Conversation", "friendly">>) @@
  ("Soft classics" :> <<"Soft", "classics">>) @@
  ("After dinner" :> <<"After", "dinner">>) @@
  ("Kickoff" :> <<"Kickoff">>) @@
  ("Hands up" :> <<"Hands", "up">>) @@
  ("Peak hour" :> <<"Peak", "hour">>) @@
  ("Afterparty" :> <<"Afterparty">>) @@
  ("Come down" :> <<"Come", "down">>) @@
  ("Slow lane" :> <<"Slow", "lane">>) @@
  ("Late afternoon haze" :> <<"Late", "afternoon", "haze">>) @@
  ("Soft edges" :> <<"Soft", "edges">>) @@
  ("Window seat" :> <<"Window", "seat">>) @@
  ("Quiet win" :> <<"Quiet", "win">>) @@
  ("If you want momentum" :> <<"If", "you", "want", "momentum">>) @@
  ("If you need a smooth start" :> <<"If", "you", "need", "a", "smooth", "start">>) @@
  ("If you want deep focus" :> <<"If", "you", "want", "deep", "focus">>) @@
  ("If you want something different" :> <<"If", "you", "want", "something", "different">>) @@
  ("If you need a mental reset" :> <<"If", "you", "need", "a", "mental", "reset">>) @@
  ("If you need a push" :> <<"If", "you", "need", "a", "push">>) @@
  ("If you want to unwind" :> <<"If", "you", "want", "to", "unwind">>) @@
  ("If you want light focus" :> <<"If", "you", "want", "light", "focus">>) @@
  ("If you want to move" :> <<"If", "you", "want", "to", "move">>) @@
  ("If you want sustained energy" :> <<"If", "you", "want", "sustained", "energy">>) @@
  ("If you want to stay sharp" :> <<"If", "you", "want", "to", "stay", "sharp">>) @@
  ("If you want something familiar" :> <<"If", "you", "want", "something", "familiar">>) @@
  ("If you want to wind down" :> <<"If", "you", "want", "to", "wind", "down">>)

\* s.charAt(0).toUpperCase() + s.slice(1) for the strings the reasons capitalize
Capitalized ==
  ("high-energy" :> "High-energy") @@
  ("mid-tempo" :> "Mid-tempo") @@
  ("low-key" :> "Low-key") @@
  ("upbeat" :> "Upbeat") @@
  ("mid valence" :> "Mid valence") @@
  ("mellower mood" :> "Mellower mood") @@
  ("brass accents" :> "Brass accents") @@
  ("brass hits" :> "Brass hits") @@
  ("bright synths" :> "Bright synths") @@
  ("building guitar" :> "Building guitar") @@
  ("fingerpicked guitar" :> "Fingerpicked guitar") @@
  ("foot stomps" :> "Foot stomps") @@
  ("funky bass" :> "Funky bass") @@
  ("guitar surge" :> "Guitar surge") @@
  ("hand claps" :> "Hand claps") @@
  ("harp glissando" :> "Harp glissando") @@
  ("layered synths" :> "Layered synths") @@
  ("raw vocals" :> "Raw vocals") @@
  ("reverb guitar" :> "Reverb guitar") @@
  ("shouted vocals" :> "Shouted vocals") @@
  ("stomping drums" :> "Stomping drums") @@
  ("stomping rhythm" :> "Stomping rhythm") @@
  ("synth bass" :> "Synth bass") @@
  ("synth epic" :> "Synth epic") @@
  ("synth lead" :> "Synth lead") @@
  ("vocal chop" :> "Vocal chop") @@
  ("warm guitar" :> "Warm guitar") @@
  ("whistle melody" :> "Whistle melody") @@
  ("whistled hook" :> "Whistled hook")

\* the characters of the words that enter the seed key
Spell ==
  ("morning" :> <<"m", "o", "r", "n", "i", "n", "g">>) @@
  ("midday" :> <<"m", "i", "d", "d", "a", "y">>) @@
  ("evening" :> <<"e", "v", "e", "n", "i", "n", "g">>) @@
  ("late_night" :> <<"l", "a", "t", "e", "_", "n", "i", "g", "h", "t">>) @@
  ("none" :> <<"n", "o", "n", "e">>) @@
  ("more_new" :> <<"m", "o", "r", "e", "_", "n", "e", "w">>) @@
  ("more_familiar" :> <<"m", "o", "r", "e", "_", "f", "a", "m", "i", "l", "i", "a", "r">>) @@
  ("no_repeats" :> <<"n", "o", "_", "r", "e", "p", "e", "a", "t", "s">>) @@
  ("my_engine" :> <<"m", "y", "_", "e", "n", "g", "i", "n", "e">>) @@
  ("spotify_ai" :> <<"s", "p", "o", "t", "i", "f", "y", "_", "a", "i">>) @@
  ("auto" :> <<"a", "u", "t", "o">>) @@
  ("working_out" :> <<"w", "o", "r", "k", "i", "n", "g", "_", "o", "u", "t">>) @@
  ("working" :> <<"w", "o", "r", "k", "i", "n", "g">>) @@
  ("studying" :> <<"s", "t", "u", "d", "y", "i", "n", "g">>) @@
  ("dinner" :> <<"d", "i", "n", "n", "e", "r">>) @@
  ("party" :> <<"p", "a", "r", "t", "y">>) @@
  ("chill" :> <<"c", "h", "i", "l", "l">>) @@
  ("now" :> <<"n", "o", "w">>) @@
  ("function Object() { [native code] }" :> <<"f", "u", "n", "c", "t", "i", "o", "n", " ", "O", "b", "j", "e", "c", "t", "(", ")", " ", "{", " ", "[", "n", "a", "t", "i", "v", "e", " ", "c", "o", "d", "e", "]", " ", "}">>) @@
  ("[object Object]" :> <<"[", "o", "b", "j", "e", "c", "t", " ", "O", "b", "j", "e", "c", "t", "]">>)

(***************************************************************************)
(* The seed of a request.                                                  *)
(***************************************************************************)
\* variant: the key without the engine
seedKeyWithoutEngine(timeBucket, tweak, engine, situation, override) ==
  Concat(<< Spell[timeBucket], <<"|">>, Spell[tweak], <<"|">>,
            Spell[situation], <<"|">>,
            IF override.isNull THEN Spell["now"]
            ELSE NumberToChars(override.hours) \o <<":">> \o NumberToChars(override.minutes) >>)

\* the template literal that GET hashes
seedKey(timeBucket, tweak, engine, situation, override) ==
  Concat(<< Spell[timeBucket], <<"|">>, Spell[tweak], <<"|">>, Spell[engine], <<"|">>,
            Spell[situation], <<"|">>,
            IF override.isNull THEN Spell["now"]
            ELSE NumberToChars(override.hours) \o <<":">> \o NumberToChars(override.minutes) >>)

(***************************************************************************)
(* Reasons, signals and the labels of the two engines.                     *)
(***************************************************************************)
\* blockTitle.includes(needle), both taken word by word: every needle of
\* generateFeatureBasedReason starts and ends at word boundaries of the titles
TitleIncludes(w, needle) ==
  \E i \in 1..Len(w) :
    /\ i + Len(needle) - 1 <= Len(w)
    /\ SubSeq(w, i, i + Len(needle) - 1) = needle

\* the body of generateFeatureBasedReason, blockTitle given by its words
ReasonFor(track, blockTitle) ==
  LET bpm         == Join(NumberToChars(track.profile.bpm))
      energy      == track.profile.energy
      valence     == track.profile.valence
      sonicTag    == track.profile.sonicTag
      energyLevel == IF energy > 75 THEN "high-energy"
                     ELSE IF energy > 55 THEN "mid-tempo" ELSE "low-key"
      mood        == IF valence > 70 THEN "upbeat"
                     ELSE IF valence > 50 THEN "mid valence" ELSE "mellower mood"
  IN  IF \/ TitleIncludes(blockTitle, <<"PR", "mode">>)
         \/ TitleIncludes(blockTitle, <<"Hands", "up">>)
         \/ TitleIncludes(blockTitle, <<"Peak">>)
      THEN bpm \o " bpm with " \o sonicTag \o ". " \o Capitalized[energyLevel]
           \o " without going full EDM."
      ELSE IF \/ TitleIncludes(blockTitle, <<"focus">>)
              \/ TitleIncludes(blockTitle, <<"Deep", "focus">>)
              \/ TitleIncludes(blockTitle, <<"Low", "distraction">>)
      THEN (IF track.profile.focus_noise = "low" THEN "Low lyric density"
            ELSE "Steady presence") \o ", " \o bpm \o " bpm. Study-safe."
      ELSE IF \/ TitleIncludes(blockTitle, <<"Dinner">>)
              \/ TitleIncludes(blockTitle, <<"Background">>)
              \/ TitleIncludes(blockTitle, <<"Conversation">>)
      THEN Capitalized[sonicTag] \o " + " \o mood \o ". Dinner table friendly."
      ELSE IF \/ TitleIncludes(blockTitle, <<"Warm", "up">>)
              \/ TitleIncludes(blockTitle, <<"Cool", "down">>)
              \/ TitleIncludes(blockTitle, <<"reset">>)
      THEN bpm \o " bpm, " \o energyLevel \o ". " \o Capitalized[mood]
           \o " to shift gears."
      ELSE bpm \o " bpm with " \o sonicTag \o ". " \o Capitalized[energyLevel]
           \o ", " \o mood \o "."

generateFeatureBasedReason(track, blockTitle) == ReasonFor(track, TitleWords[blockTitle])

getReasonSignal(intent) ==
  LET signalMap == [focus |-> "Low distraction", reset |-> "Mood reset",
                    energy |-> "Energy fit", ramp |-> "Energy fit",
                    throwback |-> "Familiar anchor", discovery |-> "Fresh angle"]
      found == PropertyLookup(signalMap, intent)
  IN  IF found = Undefined THEN "Fresh angle" ELSE found

bucketNames ==
  [morning |-> "Morning", midday |-> "Midday", evening |-> "Evening",
   late_night |-> "Late night"]

blockWhyNow(bucket, situation) ==
  IF situation # "auto"
  THEN LET situationContexts ==
             [ working_out |-> bucketNames[bucket] \o " + workout: energy that scales with your effort.",
               working     |-> bucketNames[bucket] \o " + work: keep energy up, distraction low.",
               studying    |-> bucketNames[bucket] \o " + study: keep energy up, distraction low.",
               dinner      |-> bucketNames[bucket] \o " + dinner: background warmth without competing with conversation.",
               party       |-> bucketNames[bucket] \o " + party: peak energy to move the room.",
               chill       |-> bucketNames[bucket] \o " + chill: ease into low-key, contemplative mood." ]
       IN  IF situation \in DOMAIN situationContexts
           THEN situationContexts[situation] ELSE Undefined
  ELSE [ morning    |-> "Morning: easing into the day with controlled energy.",
         midday     |-> "Midday: maintaining focus and momentum.",
         evening    |-> "Evening: transitioning to lower-pressure mode.",
         late_night |-> "Late night: staying alert or winding down on your terms." ][bucket]

spotifyAiSubtitle(bucket) ==
  IF bucket = "morning" THEN "Upbeat mix for your day"
  ELSE IF bucket = "midday" THEN "A blend for your routine"
  ELSE IF bucket = "evening" THEN "Chill picks you might like"
  ELSE "Late night vibes"

spotifyAiWhyNow(bucket) ==
  IF bucket = "morning" THEN "Picked based on your listening habits."
  ELSE IF bucket = "midday" THEN "A mix based on your recent activity."
  ELSE IF bucket = "evening" THEN "Selected for your typical evening listening."
  ELSE "Recommended from your taste profile."

\* the title of block idx when engine = spotify_ai
spotifyAiTitle(idx) ==
  IF idx = 0 THEN "Made for You"
  ELSE IF idx = 1 THEN "Daily Mix"
  ELSE IF idx = 2 THEN "Vibes"
  ELSE IF idx = 3 THEN "Recommended"
  ELSE "More Like This"

(***************************************************************************)
(* The oEmbed lookup and its module-level cache.                           *)
(***************************************************************************)
CACHE_TTL_MS == 24 * 60 * 60 * 1000

\* the separators canonicalizeTrack looks for in data.title; a title is the
\* sequence of its parts around them
Bullet == " (bullet) "

By == " by "

\* what the oEmbed endpoint can do with a lookup of track t: answer 200 with
\* a JSON body (two shapes), or fail in one of the four ways the try block
\* catches
OEmbedBody(t, shape) ==
  IF shape = "titled"
  THEN [title |-> <<t.artist, Bullet, t.name \o " - Remastered">>,
        thumbnail_url |-> "https://i.scdn.co/image/" \o t.id]
  ELSE [title |-> <<t.name>>, thumbnail_url |-> Null]

BodyShapes == {"titled", "bare"}

FailureKinds == {"network_error", "http_error", "timeout", "bad_body"}

\* title.split(sep)[k], k counted from 0; Undefined when there is no such part
RECURSIVE SplitPart(_, _, _)
SplitPart(title, sep, k) ==
  IF title = <<>> THEN (IF k = 0 THEN "" ELSE Undefined)
  ELSE IF Head(title) = sep
       THEN (IF k = 0 THEN "" ELSE SplitPart(Tail(title), sep, k - 1))
       ELSE IF k = 0
            THEN Head(title) \o (LET rest == SplitPart(Tail(title), sep, 0)
                                 IN  IF rest = Undefined THEN "" ELSE rest)
            ELSE SplitPart(Tail(title), sep, k)

OrElse(v, fallback) == IF v = Undefined \/ v = "" \/ v = Null THEN fallback ELSE v

\* the try branch of canonicalizeTrack on a parsed body
CanonicalFromBody(data, fallbackName, fallbackArtist) ==
  LET title == data.title
  IN  [ name   |-> IF Includes(title, Bullet)
                   THEN OrElse(SplitPart(title, Bullet, 1), fallbackName)
                   ELSE IF Includes(title, By)
                        THEN SplitPart(title, By, 0)
                        ELSE fallbackName,
        artist |-> IF Includes(title, Bullet)
                   THEN SplitPart(title, Bullet, 0)
                   ELSE IF Includes(title, By)
                        THEN OrElse(SplitPart(title, By, 1), fallbackArtist)
                        ELSE fallbackArtist,
        artwork_url |-> OrElse(data.thumbnail_url, Null),
        embed_title |-> Join(title) ]

\* variant: the catch branch giving the track the label it stores as
\* embed_title
CanonicalFallbackLabelled(fallbackName, fallbackArtist) ==
  [ name |-> fallbackArtist \o " - " \o fallbackName, artist |-> fallbackArtist,
    artwork_url |-> Null, embed_title |-> fallbackArtist \o " - " \o fallbackName ]

\* the catch branch of canonicalizeTrack
CanonicalFallback(fallbackName, fallbackArtist) ==
  [ name |-> fallbackName, artist |-> fallbackArtist, artwork_url |-> Null,
    embed_title |-> fallbackArtist \o " - " \o fallbackName ]

\* variant: the cache check passing over the entries stored by the catch
\* branch
CacheHitWithArtworkOnly(cache, trackUrl, t) ==
  /\ trackUrl \in DOMAIN cache
  /\ cache[trackUrl].artwork_url # Null
  /\ t - cache[trackUrl].cached_at < CACHE_TTL_MS

\* the cache check that opens canonicalizeTrack
CacheHit(cache, trackUrl, t) ==
  /\ trackUrl \in DOMAIN cache
  /\ t - cache[trackUrl].cached_at < CACHE_TTL_MS

\* oembedCache.set(trackUrl, {...result, cached_at: Date.now()})
CacheSet(cache, trackUrl, result, t) ==
  [u \in DOMAIN cache \cup {trackUrl} |->
     IF u = trackUrl
     THEN [name |-> result.name, artist |-> result.artist,
           artwork_url |-> result.artwork_url, embed_title |-> result.embed_title,
           cached_at |-> t]
     ELSE cache[u]]

(***************************************************************************)
(* buildBlocksWithArtwork after the selection: the lookups in batches of   *)
(* five, then the blocks of the response.                                  *)
(***************************************************************************)
batchSize == 5

TrackOfUrl(tracks, url) ==
  tracks[CHOOSE i \in DOMAIN tracks : makeTrackUrl(tracks[i].id) = url]

\* Array.from(new Set(urls)): the first occurrences, in order
UniqueStep(s, acc, i) == IF Includes(acc, s[i]) THEN acc ELSE Append(acc, s[i])

\* the insertions of s[lo..hi] into the set, in order
RECURSIVE UniqueLoop(_, _, _, _)
UniqueLoop(s, acc, lo, hi) ==
  IF lo > hi THEN acc
  ELSE IF lo = hi THEN UniqueStep(s, acc, lo)
  ELSE LET mid  == (lo + hi) \div 2
           left == UniqueLoop(s, acc, lo, mid)
       IN  IF left = left THEN UniqueLoop(s, left, mid + 1, hi) ELSE left

Unique(s) == UniqueLoop(s, <<>>, 1, Len(s))

\* variant: the URLs of all picked tracks, one entry per occurrence
AllTrackUrlsWithRepeats(blocks) ==
  Concat([b \in DOMAIN blocks |->
            [k \in DOMAIN blocks[b].picked |-> makeTrackUrl(blocks[b].picked[k].id)]])

AllTrackUrls(blocks) ==
  Unique(Concat([b \in DOMAIN blocks |->
                   [k \in DOMAIN blocks[b].picked |-> makeTrackUrl(blocks[b].picked[k].id)]]))

\* variant: reason and reason_signal filled in whatever the engine
FinalTrackAlwaysExplained(t, blk, cache, engine) ==
  LET trackUrl == makeTrackUrl(t.id)
      has      == trackUrl \in DOMAIN cache
  IN  [ id     |-> t.id,
        name   |-> IF has THEN OrElse(cache[trackUrl].name, t.name) ELSE t.name,
        artist |-> IF has THEN OrElse(cache[trackUrl].artist, t.artist) ELSE t.artist,
        reason |-> generateFeatureBasedReason(t, blk.blockPlan.title),
        reason_signal |-> getReasonSignal(blk.intent),
        track_url   |-> trackUrl,
        artwork_url |-> IF has THEN OrElse(cache[trackUrl].artwork_url, Null) ELSE Null ]

\* variant: reason and reason_signal left out whatever the engine
FinalTrackNeverExplained(t, blk, cache, engine) ==
  LET trackUrl == makeTrackUrl(t.id)
      has      == trackUrl \in DOMAIN cache
  IN  [ id     |-> t.id,
        name   |-> IF has THEN OrElse(cache[trackUrl].name, t.name) ELSE t.name,
        artist |-> IF has THEN OrElse(cache[trackUrl].artist, t.artist) ELSE t.artist,
        reason |-> "",
        reason_signal |-> Undefined,
        track_url   |-> trackUrl,
        artwork_url |-> IF has THEN OrElse(cache[trackUrl].artwork_url, Null) ELSE Null ]

\* b.picked.map(...): one track of the response, read from the cache as it is
\* when the blocks are assembled
FinalTrack(t, blk, cache, engine) ==
  LET trackUrl == makeTrackUrl(t.id)
      has      == trackUrl \in DOMAIN cache
  IN  [ id     |-> t.id,
        name   |-> IF has THEN OrElse(cache[trackUrl].name, t.name) ELSE t.name,
        artist |-> IF has THEN OrElse(cache[trackUrl].artist, t.artist) ELSE t.artist,
        reason |-> IF engine = "spotify_ai" THEN ""
                   ELSE generateFeatureBasedReason(t, blk.blockPlan.title),
        reason_signal |-> IF engine = "spotify_ai" THEN Undefined
                          ELSE getReasonSignal(blk.intent),
        track_url   |-> trackUrl,
        artwork_url |-> IF has THEN OrElse(cache[trackUrl].artwork_url, Null) ELSE Null ]

\* blocks.map(...) at the end of buildBlocksWithArtwork
FinalBlocks(blocks, cache, bucket, engine, situation) ==
  [ b \in DOMAIN blocks |->
      LET blk    == blocks[b]
          tracks == [k \in DOMAIN blk.picked |-> FinalTrack(blk.picked[k], blk, cache, engine)]
      IN  IF engine = "spotify_ai"
          THEN [ id |-> "block-" \o Join(NumberToChars(blk.idx)), title |-> spotifyAiTitle(blk.idx),
                 subtitle |-> OrElse(blk.blockPlan.subtitle, spotifyAiSubtitle(bucket)),
                 why_now |-> spotifyAiWhyNow(bucket), tracks |-> tracks ]
          ELSE [ id |-> "block-" \o Join(NumberToChars(blk.idx)), title |-> blk.blockPlan.title,
                 subtitle |-> blk.blockPlan.subtitle,
                 why_now |-> blockWhyNow(bucket, situation), tracks |-> tracks ] ]

\* The for loop over the batches, run from offset r.i until a batch has a
\* lookup that must wait for oEmbed (the request then awaits Promise.all) or
\* the loop ends and the response is built.  Lookups answered by the cache
\* resolve without leaving the request's turn.
RECURSIVE RunBatches(_, _, _)
RunBatches(r, cache, t) ==
  IF r.i >= Len(r.trackUrlArray)
  THEN [r EXCEPT !.status = "done",
                 !.blocks = FinalBlocks(r.picks, cache, r.time_bucket, r.engine, r.situation)]
  ELSE LET last   == IF r.i + batchSize < Len(r.trackUrlArray)
                     THEN r.i + batchSize ELSE Len(r.trackUrlArray)
           batch  == SubSeq(r.trackUrlArray, r.i + 1, last)
           misses == {u \in Range(batch) : ~CacheHit(cache, u, t)}
           r1     == [r EXCEPT
                        !.lookups = @ \o [k \in DOMAIN batch |->
                                            [url |-> batch[k],
                                             from |-> IF batch[k] \in misses
                                                      THEN "oembed" ELSE "cache"]],
                        !.pending = misses]
       IN  IF misses = {}
           THEN RunBatches([r1 EXCEPT !.i = @ + batchSize], cache, t)
           ELSE r1

\* variant: the loop not taken up again once the batch has settled
AfterSettleWithoutResume(r, trackUrl, outcome, cache, t) ==
  [r EXCEPT !.pending = @ \ {trackUrl},
            !.outcomes = @ \cup {[url |-> trackUrl, outcome |-> outcome]}]

\* the request once one of its pending lookups has settled
AfterSettle(r, trackUrl, outcome, cache, t) ==
  LET r1 == [r EXCEPT !.pending = @ \ {trackUrl},
                      !.outcomes = @ \cup {[url |-> trackUrl, outcome |-> outcome]}]
  IN  IF r1.pending = {}
      THEN RunBatches([r1 EXCEPT !.i = @ + batchSize], cache, t)
      ELSE r1

(***************************************************************************)
(* GET /api/mix up to its first await.                                     *)
(***************************************************************************)
\* variant: the seed mixed with the clock
NewRequestClockSeeded(tracks, query, t, epoch) ==
  LET tweak           == getTweak(query.tweak)
      engine          == getEngine(query.engine)
      situationResult == getSituation(query.situation)
      situation       == situationResult.situation
      override        == parseTimeOverride(query.time)
      chicagoMinutes  == IF override.isNull THEN getChicagoMinutesNow(t, epoch)
                         ELSE (override.hours * 60) + override.minutes
      timeBucket      == getTimeBucketFromMinutes(chicagoMinutes)
      seed            == Add32(stableHash(seedKey(timeBucket, tweak, engine, situation,
                                                       override)),
                               t \div MsPerMinute)
      plan            == blockPlan(timeBucket, situation)
      picks           == PickBlocks(tracks, plan, tweak, seed, situation).blocks
  IN  [ query |-> query, generated_at |-> t,
        local_time_display |-> formatLocalTime(chicagoMinutes),
        override |-> override, time_bucket |-> timeBucket, engine |-> engine,
        tweak |-> tweak, situation_raw |-> situationResult.raw,
        situation_normalized |-> situationResult.normalized,
        situation |-> situation, seed |-> seed,
        picks |-> picks, trackUrlArray |-> AllTrackUrls(picks),
        i |-> 0, pending |-> {}, lookups |-> <<>>, outcomes |-> {},
        status |-> "enriching", blocks |-> <<>> ]

NewRequest(tracks, query, t, epoch) ==
  LET tweak           == getTweak(query.tweak)
      engine          == getEngine(query.engine)
      situationResult == getSituation(query.situation)
      situation       == situationResult.situation
      override        == parseTimeOverride(query.time)
      chicagoMinutes  == IF override.isNull THEN getChicagoMinutesNow(t, epoch)
                         ELSE (override.hours * 60) + override.minutes
      timeBucket      == getTimeBucketFromMinutes(chicagoMinutes)
      seed            == stableHash(seedKey(timeBucket, tweak, engine, situation, override))
      plan            == blockPlan(timeBucket, situation)
      picks           == PickBlocks(tracks, plan, tweak, seed, situation).blocks
  IN  [ query |-> query, generated_at |-> t,
        local_time_display |-> formatLocalTime(chicagoMinutes),
        override |-> override, time_bucket |-> timeBucket, engine |-> engine,
        tweak |-> tweak, situation_raw |-> situationResult.raw,
        situation_normalized |-> situationResult.normalized,
        situation |-> situation, seed |-> seed,
        picks |-> picks, trackUrlArray |-> AllTrackUrls(picks),
        i |-> 0, pending |-> {}, lookups |-> <<>>, outcomes |-> {},
        status |-> "enriching", blocks |-> <<>> ]

(***************************************************************************)
(* State.                                                                  *)
(***************************************************************************)
VARIABLES
  catalog,       \* MOCK_TRACKS, or a prefix of it
  epochMinute,   \* the America/Chicago minute of the day at instant 0
  oembedService, \* per track URL, what the oEmbed endpoint may answer
  now,           \* Date.now(), in ms
  oembedCache,   \* the module-level Map: track URL -> entry
  requests,      \* every GET so far, in arrival order, with its progress
  probe          \* argument and result of a function applied on its own

vars == <<catalog, epochMinute, oembedService, now, oembedCache, requests, probe>>

NoProbe == [fn |-> "none", arg |-> 0, result |-> "none"]

CatalogUrls(tracks) == {makeTrackUrl(tracks[i].id) : i \in DOMAIN tracks}

Get(query) ==
  /\ requests' = Append(requests,
                        RunBatches(NewRequest(catalog, query, now, epochMinute),
                                   oembedCache, now))
  /\ UNCHANGED <<catalog, epochMinute, oembedService, now, oembedCache, probe>>

\* a pending fetch answers 200 with a body: the rest of the try block
FetchResolved(rid, trackUrl, shape) ==
  /\ rid \in DOMAIN requests
  /\ trackUrl \in requests[rid].pending
  /\ shape \in oembedService[trackUrl]
  /\ LET t      == TrackOfUrl(catalog, trackUrl)
         result == CanonicalFromBody(OEmbedBody(t, shape), t.name, t.artist)
         cache1 == CacheSet(oembedCache, trackUrl, result, now)
     IN  /\ oembedCache' = cache1
         /\ requests' = [requests EXCEPT
                           ![rid] = AfterSettle(@, trackUrl, "resolved", cache1, now)]
  /\ UNCHANGED <<catalog, epochMinute, oembedService, now, probe>>

\* a pending fetch rejects, times out, answers non-2xx or has no JSON body:
\* the catch block
FetchFailed(rid, trackUrl, kind) ==
  /\ rid \in DOMAIN requests
  /\ trackUrl \in requests[rid].pending
  /\ kind \in oembedService[trackUrl]
  /\ LET t      == TrackOfUrl(catalog, trackUrl)
         result == CanonicalFallback(t.name, t.artist)
         cache1 == CacheSet(oembedCache, trackUrl, result, now)
     IN  /\ oembedCache' = cache1
         /\ requests' = [requests EXCEPT
                           ![rid] = AfterSettle(@, trackUrl, "failed", cache1, now)]
  /\ UNCHANGED <<catalog, epochMinute, oembedService, now, probe>>

(***************************************************************************)
(* The clock.                                                              *)
(***************************************************************************)
\* The clock advances in steps of twelve hours, at most MaxTicks times.  A
\* fetch is aborted after 3 seconds (AbortSignal.timeout(3000)), so no lookup
\* is pending across a step of the clock.
TickMs == 12 * 60 * 60 * 1000

MaxTicks == 2

Tick ==
  /\ now + TickMs <= MaxTicks * TickMs
  /\ \A rid \in DOMAIN requests : requests[rid].pending = {}
  /\ now' = now + TickMs
  /\ UNCHANGED <<catalog, epochMinute, oembedService, oembedCache, requests, probe>>

Q(time, tweak, engine, situation) ==
  [time |-> time, tweak |-> tweak, engine |-> engine, situation |-> situation]

(***************************************************************************)
(* Concurrent requests over a short catalog, with one track whose oEmbed   *)
(* lookups may fail: Spec.                                                 *)
(***************************************************************************)
MaxRequests == 2

SmallCatalog == 6

FlakyTracks == 1

\* the queries of the concurrent requests:
\*   ?time=08:30    and    ?tweak=no_repeats&situation=gym
Queries ==
  { Q(<<"0", "8", ":", "3", "0">>, Absent, Absent, Absent),
    Q(Absent, <<"n", "o", "_", "r", "e", "p", "e", "a", "t", "s">>, Absent, <<"g", "y", "m">>) }

Init ==
  /\ catalog = SubSeq(MOCK_TRACKS, 1, SmallCatalog)
  /\ epochMinute = (8 * 60) + 30
  /\ oembedService = [u \in CatalogUrls(catalog) |->
                        IF \E i \in 1..FlakyTracks : u = makeTrackUrl(catalog[i].id)
                        THEN {"titled"} \cup FailureKinds
                        ELSE {"titled"}]
  /\ now = 0
  /\ oembedCache = <<>>
  /\ requests = <<>>
  /\ probe = NoProbe

Next ==
  \/ \E query \in Queries : Len(requests) < MaxRequests /\ Get(query)
  \/ \E rid \in DOMAIN requests, u \in CatalogUrls(catalog), shape \in BodyShapes :
        FetchResolved(rid, u, shape)
  \/ \E rid \in DOMAIN requests, u \in CatalogUrls(catalog), kind \in FailureKinds :
        FetchFailed(rid, u, kind)
  \/ Tick

Spec == Init /\ [][Next]_vars

\* a pending fetch of request rid settles: it answers, fails, or is aborted
\* by AbortSignal.timeout(3000)
Settle(rid) ==
  \/ \E u \in CatalogUrls(catalog), shape \in BodyShapes : FetchResolved(rid, u, shape)
  \/ \E u \in CatalogUrls(catalog), kind \in FailureKinds : FetchFailed(rid, u, kind)

\* the number of requests whose fetches are followed to the end
LiveRequests == 2

\* the queries of the requests followed to the end: those of Spec and
\*   ?time=23:45&engine=spotify_ai
LiveQueries ==
  Queries \cup
  { Q(<<"2", "3", ":", "4", "5">>, Absent,
      <<"s", "p", "o", "t", "i", "f", "y", "_", "a", "i">>, Absent) }

\* the requests one after another while the clock stands still, a later
\* request finding the cache the earlier ones filled, and every pending fetch
\* settling in the end
NextLive ==
  \/ \E query \in LiveQueries :
        /\ Len(requests) < LiveRequests
        /\ \A rid \in DOMAIN requests : requests[rid].status = "done"
        /\ Get(query)
  \/ \E rid \in DOMAIN requests : Settle(rid)

SpecLive ==
  Init /\ [][NextLive]_vars /\ \A rid \in 1..LiveRequests : WF_vars(Settle(rid))

(***************************************************************************)
(* One request at a time over the whole catalog and over a catalog of      *)
(* fewer than five tracks, for a wide set of queries: SpecMix.             *)
(***************************************************************************)
ShortCatalog == 3

\* ?time= values in each of the four buckets
ValidTimes ==
  { <<"0", "8", ":", "3", "0">>,
    <<"1", "3", ":", "0", "0">>,
    <<"1", "9", ":", "1", "5">>,
    <<"2", "3", ":", "4", "5">> }

\* ?time= absent, empty, padded with whitespace, or not a time of day
InvalidTimes ==
  { Absent,
    <<>>,
    <<" ", "0", "8", ":", "3", "0">>,
    <<"0", "8", ":", "3", "0", "	">>,
    <<"8", ":", "3", "0">>,
    <<"2", "4", ":", "0", "0">>,
    <<"0", "8", ":", "6", "0">>,
    <<"0", "8", "3", "0">>,
    <<"0", "8", ":", "3", "o">>,
    <<"n", "o", "o", "n">>,
    <<"0", "8", ":", "3", "0", ":", "0", "0">> }

\* ?tweak= absent and its three values
ValidTweaks ==
  { Absent,
    <<"m", "o", "r", "e", "_", "n", "e", "w">>,
    <<"m", "o", "r", "e", "_", "f", "a", "m", "i", "l", "i", "a", "r">>,
    <<"n", "o", "_", "r", "e", "p", "e", "a", "t", "s">> }

\* ?tweak= values outside the three
InvalidTweaks ==
  { <<>>,
    <<"s", "h", "u", "f", "f", "l", "e">>,
    <<"N", "o", "_", "R", "e", "p", "e", "a", "t", "s">>,
    <<" ", "n", "o", "_", "r", "e", "p", "e", "a", "t", "s", " ">>,
    <<"n", "o", "n", "e">> }

\* ?engine= absent, or spelled otherwise than spotify_ai
OddEngines ==
  { Absent,
    <<"b", "a", "s", "e", "l", "i", "n", "e">>,
    <<" ", "s", "p", "o", "t", "i", "f", "y", "_", "a", "i">>,
    <<"S", "p", "o", "t", "i", "f", "y", "_", "A", "I">>,
    <<"m", "y", "_", "e", "n", "g", "i", "n", "e">> }

\* ?situation= absent and one alias of each situation
PlainSituations ==
  { Absent,
    <<"g", "y", "m">>,
    <<"w", "o", "r", "k">>,
    <<"s", "t", "u", "d", "y">>,
    <<"d", "i", "n", "n", "e", "r">>,
    <<"p", "a", "r", "t", "y">>,
    <<"c", "h", "i", "l", "l">> }

\* ?situation= values that need normalizing, unknown tokens, and names of
\* properties every object inherits
OddSituations ==
  { <<>>,
    <<"a", "u", "t", "o">>,
    <<" ", " ", "W", "o", "r", "k", "i", "n", "g", "-", "O", "u", "t", " ">>,
    <<"h", "a", "n", "g", "i", "n", "g", " ", " ", "o", "u", "t">>,
    <<"L", "A", "T", "E", " ", "N", "I", "G", "H", "T">>,
    <<"n", "a", "p">>,
    <<"g", "y", "m", "!">>,
    <<"w", "o", "r", "k", " ", "o", "u", "t", " ", "n", "o", "w">>,
    <<"c", "o", "n", "s", "t", "r", "u", "c", "t", "o", "r">>,
    <<" ", "C", "o", "n", "s", "t", "r", "u", "c", "t", "o", "r">>,
    <<"_", "_", "p", "r", "o", "t", "o", "_", "_">>,
    <<"t", "o", "s", "t", "r", "i", "n", "g">> }

\* both engines and every tweak at every time of day, and with every
\* situation in the morning and in the evening; then the odd and the invalid
\* values of each parameter on their own
MixQueries ==
  {Q(time, tweak, engine, Absent) :
     time \in ValidTimes, tweak \in ValidTweaks, engine \in {Absent, <<"s", "p", "o", "t", "i", "f", "y", "_", "a", "i">>}}
  \cup {Q(time, tweak, Absent, situation) :
     time \in {<<"0", "8", ":", "3", "0">>, <<"1", "9", ":", "1", "5">>}, tweak \in ValidTweaks, situation \in PlainSituations}
  \cup {Q(time, Absent, <<"s", "p", "o", "t", "i", "f", "y", "_", "a", "i">>, situation) :
     time \in {<<"0", "8", ":", "3", "0">>, <<"1", "9", ":", "1", "5">>}, situation \in PlainSituations}
  \cup {Q(time, Absent, engine, Absent) :
     time \in {<<"0", "8", ":", "3", "0">>, <<"1", "9", ":", "1", "5">>}, engine \in OddEngines}
  \cup {Q(time, Absent, Absent, situation) :
     time \in {<<"0", "8", ":", "3", "0">>, <<"1", "9", ":", "1", "5">>}, situation \in OddSituations}
  \cup {Q(time, Absent, Absent, Absent) : time \in InvalidTimes}
  \cup {Q(<<"0", "8", ":", "3", "0">>, tweak, Absent, Absent) : tweak \in InvalidTweaks}

\* the minute of the day in America/Chicago at which the request arrives
ArrivalMinutes == {(6 * 60) + 59, (13 * 60) + 5}

\* oEmbed up: a body for every track, titled for the tracks at odd positions
\* of the catalog and bare for the others.  oEmbed down: every lookup fails.
ServiceUp(tracks) ==
  [u \in CatalogUrls(tracks) |->
     IF \E i \in DOMAIN tracks : u = makeTrackUrl(tracks[i].id) /\ i % 2 = 1
     THEN {"titled"} ELSE {"bare"}]

ServiceDown(tracks) == [u \in CatalogUrls(tracks) |-> FailureKinds]

InitMix ==
  /\ catalog \in {MOCK_TRACKS, SubSeq(MOCK_TRACKS, 1, ShortCatalog)}
  /\ epochMinute \in ArrivalMinutes
  /\ oembedService \in {ServiceUp(catalog), ServiceDown(catalog)}
  /\ now = 0
  /\ oembedCache = <<>>
  /\ requests = <<>>
  /\ probe = NoProbe

NextMix ==
  \/ \E query \in MixQueries : requests = <<>> /\ Get(query)
  \/ \E rid \in DOMAIN requests, u \in CatalogUrls(catalog), shape \in BodyShapes :
        FetchResolved(rid, u, shape)
  \/ \E rid \in DOMAIN requests, u \in CatalogUrls(catalog), kind \in FailureKinds :
        FetchFailed(rid, u, kind)

SpecMix == InitMix /\ [][NextMix]_vars

(***************************************************************************)
(* getTimeBucketFromMinutes applied on its own to every minute of the day: *)
(* SpecBucket.                                                             *)
(***************************************************************************)
ProbeBucket(mins) ==
  /\ probe' = [fn |-> "getTimeBucketFromMinutes", arg |-> mins,
               result |-> getTimeBucketFromMinutes(mins)]
  /\ UNCHANGED <<catalog, epochMinute, oembedService, now, oembedCache, requests>>

InitBucket ==
  /\ catalog = <<>>
  /\ epochMinute = 0
  /\ oembedService = <<>>
  /\ now = 0
  /\ oembedCache = <<>>
  /\ requests = <<>>
  /\ probe = NoProbe

NextBucket == \E mins \in 0..(MinutesPerDay - 1) : ProbeBucket(mins)

SpecBucket == InitBucket /\ [][NextBucket]_vars

(***************************************************************************)
(* The first revision of the route (route.ts, lines 1-1275): the catalog   *)
(* with the profile fields its reason templates read.                      *)
(***************************************************************************)
HOOK_TRACKS ==
  << [id |-> "0q6LuUqGLUiCPP1cbdwFs3", artist |-> "Gorillaz",
      profile |-> [genre |-> "alt pop", era |-> "late 2000s", vibes |-> <<"clean", "melodic", "bright">>, hook |-> "clean melodic groove"]],
     [id |-> "7w87IxuO7BDcJ3YUqCyMTT", artist |-> "Foster The People",
      profile |-> [genre |-> "indie pop", era |-> "early 2010s", vibes |-> <<"catchy", "nostalgic", "smooth">>, hook |-> "whistled melody"]],
     [id |-> "60ZGteAEtPCnGE6zevgUcd", artist |-> "Of Monsters and Men",
      profile |-> [genre |-> "indie folk", era |-> "early 2010s", vibes |-> <<"bright", "organic", "warm">>, hook |-> "anthemic stomp"]],
     [id |-> "2ihCaVdNZmnHZWt0fvAM7B", artist |-> "Of Monsters and Men",
      profile |-> [genre |-> "indie folk", era |-> "early 2010s", vibes |-> <<"anthemic", "sing-along", "uplifting">>, hook |-> "call-and-response vocals"]],
     [id |-> "6K4t31amVTZDgR3sKmwUJJ", artist |-> "The Paper Kites",
      profile |-> [genre |-> "indie folk", era |-> "early 2010s", vibes |-> <<"delicate", "gentle", "warm">>, hook |-> "fingerpicked guitar"]],
     [id |-> "09019ss66clxe59SgrUD7j", artist |-> "George Ezra",
      profile |-> [genre |-> "indie folk", era |-> "mid 2010s", vibes |-> <<"warm", "soulful", "easygoing">>, hook |-> "deep baritone vocals"]],
     [id |-> "5Hroj5K7vLpIG4FNCRIjbP", artist |-> "American Authors",
      profile |-> [genre |-> "indie pop", era |-> "early 2010s", vibes |-> <<"joyful", "anthemic", "upbeat">>, hook |-> "hand-clap beat"]],
     [id |-> "2EqlS6tkEnglzr7tkKAAYD", artist |-> "The Killers",
      profile |-> [genre |-> "indie rock", era |-> "mid 2000s", vibes |-> <<"driving", "punchy", "tight">>, hook |-> "synth bassline"]],
     [id |-> "3AJwUDP919kvQ9QcozQPxg", artist |-> "The Killers",
      profile |-> [genre |-> "indie rock", era |-> "mid 2000s", vibes |-> <<"anthemic", "driving", "classic">>, hook |-> "guitar surge"]],
     [id |-> "3FtYbEfBqAlGO46NUDQSAt", artist |-> "MGMT",
      profile |-> [genre |-> "psychedelic pop", era |-> "late 2000s", vibes |-> <<"groovy", "colorful", "playful">>, hook |-> "funky bassline"]],
     [id |-> "2Kerz9H9IejzeIpjhDJoYG", artist |-> "MGMT",
      profile |-> [genre |-> "psychedelic pop", era |-> "late 2000s", vibes |-> <<"nostalgic", "synth-heavy", "anthemic">>, hook |-> "synth lead melody"]],
     [id |-> "6Z8R6UsFuGXGtiIxiD8ISb", artist |-> "Capital Cities",
      profile |-> [genre |-> "indie pop", era |-> "early 2010s", vibes |-> <<"bright", "feel-good", "catchy">>, hook |-> "horn stabs"]],
     [id |-> "1eyzqe2QqGZUmfcPZtrIyt", artist |-> "M83",
      profile |-> [genre |-> "synth pop", era |-> "early 2010s", vibes |-> <<"epic", "shimmering", "driving">>, hook |-> "saxophone solo"]],
     [id |-> "2lwwrWVKdf3LR9lbbhnr6R", artist |-> "Modest Mouse",
      profile |-> [genre |-> "indie rock", era |-> "mid 2000s", vibes |-> <<"carefree", "optimistic", "loose">>, hook |-> "bouncy guitar riff"]],
     [id |-> "0EkVCyQUSFv8uP4FKk6VL8", artist |-> "Grouplove",
      profile |-> [genre |-> "indie rock", era |-> "early 2010s", vibes |-> <<"chaotic", "fun", "raw">>, hook |-> "shout-along chorus"]],
     [id |-> "01iyCAUm8EvOFqVWYJ3dVX", artist |-> "Passion Pit",
      profile |-> [genre |-> "indie pop", era |-> "early 2010s", vibes |-> <<"bright", "layered", "urgent">>, hook |-> "cascading synths"]],
     [id |-> "4prEPl61C8qZpeo3IkYSMl", artist |-> "Passion Pit",
      profile |-> [genre |-> "indie pop", era |-> "late 2000s", vibes |-> <<"glitchy", "bouncy", "frenetic">>, hook |-> "chopped vocal sample"]],
     [id |-> "0DwClY2t9YAWHBROMIgrXb", artist |-> "The Lumineers",
      profile |-> [genre |-> "indie folk", era |-> "early 2010s", vibes |-> <<"warm", "simple", "organic">>, hook |-> "stomp-clap rhythm"]],
     [id |-> "14AyWf6y7KlWWLfAjdKMKI", artist |-> "The Lumineers",
      profile |-> [genre |-> "indie folk", era |-> "mid 2010s", vibes |-> <<"anthemic", "organic", "uplifting">>, hook |-> "stomping beat"]],
     [id |-> "2QjOHCTQ1Jl3zawyYOpxh6", artist |-> "The Neighbourhood",
      profile |-> [genre |-> "alt rock", era |-> "early 2010s", vibes |-> <<"moody", "dreamy", "smooth">>, hook |-> "reverb guitar line"]],
     [id |-> "1YLJVmuzeM2YSUkCCaTNUB", artist |-> "Florence + The Machine",
      profile |-> [genre |-> "indie rock", era |-> "late 2000s", vibes |-> <<"powerful", "triumphant", "raw">>, hook |-> "explosive harp crescendo"]],
     [id |-> "6xyWmzLDVSJcYBWidQ38Fi", artist |-> "Foster The People",
      profile |-> [genre |-> "indie pop", era |-> "early 2010s", vibes |-> <<"chill", "catchy", "smooth">>, hook |-> "whistled melody"]],
     [id |-> "4dyx5SzxPPaD8xQIid5Wjj", artist |-> "Peter Bjorn and John",
      profile |-> [genre |-> "indie pop", era |-> "mid 2000s", vibes |-> <<"playful", "bright", "whistled">>, hook |-> "iconic whistle riff"]],
     [id |-> "1301WleyT98MSxVHPZCA6M", artist |-> "WALK THE MOON",
      profile |-> [genre |-> "indie pop", era |-> "mid 2010s", vibes |-> <<"upbeat", "funky", "danceable">>, hook |-> "driving bass groove"]],
     [id |-> "3e0yTP5trHBBVvV32jwXqF", artist |-> "WALK THE MOON",
      profile |-> [genre |-> "indie rock", era |-> "early 2010s", vibes |-> <<"raw", "explosive", "anthemic">>, hook |-> "shouted vocals"]],
     [id |-> "1UqhkbzB1kuFwt2iy4h29Q", artist |-> "Young the Giant",
      profile |-> [genre |-> "indie rock", era |-> "early 2010s", vibes |-> <<"building", "emotional", "anthemic">>, hook |-> "soaring chorus"]] >>

\* REASON_TEMPLATES: per intent, the templates in order; each is the pair of
\* its texts for useHook true and false (the same text when the template
\* ignores useHook), a text being the sequence of its
\* literal parts and of the track fields it interpolates
REASON_TEMPLATES ==
  [
    focus |-> <<
       [hooked |-> <<[k |-> "field", v |-> "artist"], [k |-> "lit", v |-> " with "], [k |-> "field", v |-> "hook"], [k |-> "lit", v |-> ". Easy focus music that still feels alive."]>>,
        plain  |-> <<[k |-> "field", v |-> "artist"], [k |-> "lit", v |-> ", "], [k |-> "field", v |-> "genre"], [k |-> "lit", v |-> " that keeps distractions low without going ambient."]>>],
       [hooked |-> <<[k |-> "field", v |-> "artist"], [k |-> "lit", v |-> "'s "], [k |-> "field", v |-> "hook"], [k |-> "lit", v |-> " keeps you anchored. Good for deep work."]>>,
        plain  |-> <<[k |-> "field", v |-> "artist"], [k |-> "lit", v |-> " stays out of the way but keeps the room from feeling empty."]>>],
       [hooked |-> <<[k |-> "field", v |-> "hook"], [k |-> "lit", v |-> " from "], [k |-> "field", v |-> "artist"], [k |-> "lit", v |-> ". Texture without distraction."]>>,
        plain  |-> <<[k |-> "field", v |-> "artist"], [k |-> "lit", v |-> ", clean "], [k |-> "field", v |-> "genre"], [k |-> "lit", v |-> ". Sits in the background without pulling focus."]>>],
       [hooked |-> <<[k |-> "field", v |-> "artist"], [k |-> "lit", v |-> " leans on "], [k |-> "field", v |-> "hook"], [k |-> "lit", v |-> ". Familiar structure, low noise."]>>,
        plain  |-> <<[k |-> "field", v |-> "artist"], [k |-> "lit", v |-> " holds steady energy without demanding attention."]>>],
       [hooked |-> <<[k |-> "field", v |-> "hook"], [k |-> "lit", v |-> " keeps "], [k |-> "field", v |-> "artist"], [k |-> "lit", v |-> " grounded. Works when you need flow state."]>>,
        plain  |-> <<[k |-> "field", v |-> "artist"], [k |-> "lit", v |-> ", subtle "], [k |-> "field", v |-> "genre"], [k |-> "lit", v |-> ". Present but never intrusive."]>>] >>,
    reset |-> <<
       [hooked |-> <<[k |-> "field", v |-> "artist"], [k |-> "lit", v |-> " and that "], [k |-> "field", v |-> "hook"], [k |-> "lit", v |-> ". A mental reset that doesn't kill momentum."]>>,
        plain  |-> <<[k |-> "field", v |-> "genre"], [k |-> "lit", v |-> " with a "], [k |-> "field", v |-> "vibe0orSmooth"], [k |-> "lit", v |-> " feel. Clears your head without pulling you out."]>>],
       [hooked |-> <<[k |-> "field", v |-> "artist"], [k |-> "lit", v |-> "'s "], [k |-> "field", v |-> "hook"], [k |-> "lit", v |-> " gives you breathing room. Quick mental refresh."]>>,
        plain  |-> <<[k |-> "field", v |-> "artist"], [k |-> "lit", v |-> ", "], [k |-> "field", v |-> "vibe0orMellow"], [k |-> "lit", v |-> " "], [k |-> "field", v |-> "genre"], [k |-> "lit", v |-> ". Lets your mind wander briefly."]>>],
       [hooked |-> <<[k |-> "field", v |-> "hook"], [k |-> "lit", v |-> " from "], [k |-> "field", v |-> "artist"], [k |-> "lit", v |-> ". Shifts the mood without losing pace."]>>,
        plain  |-> <<[k |-> "field", v |-> "artist"], [k |-> "lit", v |-> " creates space to reset. You can step back without fully disengaging."]>>],
       [hooked |-> <<[k |-> "field", v |-> "artist"], [k |-> "lit", v |-> " uses "], [k |-> "field", v |-> "hook"], [k |-> "lit", v |-> " to ease tension. Small break, big impact."]>>,
        plain  |-> <<[k |-> "field", v |-> "artist"], [k |-> "lit", v |-> ", gentle "], [k |-> "field", v |-> "genre"], [k |-> "lit", v |-> ". A moment to recalibrate."]>>],
       [hooked |-> <<[k |-> "field", v |-> "hook"], [k |-> "lit", v |-> " anchors "], [k |-> "field", v |-> "artist"], [k |-> "lit", v |-> "'s reset energy. Calms without slowing down."]>>,
        plain  |-> <<[k |-> "field", v |-> "artist"], [k |-> "lit", v |-> " offers a "], [k |-> "field", v |-> "vibe0orSmooth"], [k |-> "lit", v |-> " pause. Clears the mental queue."]>>] >>,
    energy |-> <<
       [hooked |-> <<[k |-> "field", v |-> "artist"], [k |-> "lit", v |-> ", "], [k |-> "field", v |-> "hook"], [k |-> "lit", v |-> ". Lifts the energy without chaos."]>>,
        plain  |-> <<[k |-> "field", v |-> "artist"], [k |-> "lit", v |-> " brings "], [k |-> "field", v |-> "vibeBold"], [k |-> "lit", v |-> " energy. Quick push when the day drags."]>>],
       [hooked |-> <<[k |-> "field", v |-> "artist"], [k |-> "lit", v |-> " leans into "], [k |-> "field", v |-> "hook"], [k |-> "lit", v |-> ". Momentum boost, no overload."]>>,
        plain  |-> <<[k |-> "field", v |-> "artist"], [k |-> "lit", v |-> ", high-energy "], [k |-> "field", v |-> "genre"], [k |-> "lit", v |-> ". Gets you moving without overwhelming."]>>],
       [hooked |-> <<[k |-> "field", v |-> "hook"], [k |-> "lit", v |-> " drives "], [k |-> "field", v |-> "artist"], [k |-> "lit", v |-> "'s power. Forward motion when you need it."]>>,
        plain  |-> <<[k |-> "field", v |-> "artist"], [k |-> "lit", v |-> " delivers "], [k |-> "field", v |-> "vibe0"], [k |-> "lit", v |-> " force. Shakes off the midday slump."]>>],
       [hooked |-> <<[k |-> "field", v |-> "artist"], [k |-> "lit", v |-> "'s "], [k |-> "field", v |-> "hook"], [k |-> "lit", v |-> " injects urgency. Raises tempo, keeps control."]>>,
        plain  |-> <<[k |-> "field", v |-> "artist"], [k |-> "lit", v |-> ", punchy "], [k |-> "field", v |-> "genre"], [k |-> "lit", v |-> ". Pulls you up without feeling forced."]>>],
       [hooked |-> <<[k |-> "field", v |-> "hook"], [k |-> "lit", v |-> " gives "], [k |-> "field", v |-> "artist"], [k |-> "lit", v |-> " its edge. Sharp energy, no strain."]>>,
        plain  |-> <<[k |-> "field", v |-> "artist"], [k |-> "lit", v |-> " amplifies the room. Bold but focused."]>>] >>,
    ramp |-> <<
       [hooked |-> <<[k |-> "field", v |-> "artist"], [k |-> "lit", v |-> " with "], [k |-> "field", v |-> "hook"], [k |-> "lit", v |-> ". Upbeat without jumping straight into peak mode."]>>,
        plain  |-> <<[k |-> "field", v |-> "artist"], [k |-> "lit", v |-> ", "], [k |-> "field", v |-> "genre"], [k |-> "lit", v |-> ". Raises the tempo smoothly."]>>],
       [hooked |-> <<[k |-> "field", v |-> "artist"], [k |-> "lit", v |-> " uses "], [k |-> "field", v |-> "hook"], [k |-> "lit", v |-> " to build momentum. Gradual lift."]>>,
        plain  |-> <<[k |-> "field", v |-> "artist"], [k |-> "lit", v |-> ", steady climb. Gets you there without rushing."]>>],
       [hooked |-> <<[k |-> "field", v |-> "hook"], [k |-> "lit", v |-> " from "], [k |-> "field", v |-> "artist"], [k |-> "lit", v |-> ". Warm-up energy that scales naturally."]>>,
        plain  |-> <<[k |-> "field", v |-> "artist"], [k |-> "lit", v |-> ", rising "], [k |-> "field", v |-> "genre"], [k |-> "lit", v |-> ". Sets the pace without forcing it."]>>],
       [hooked |-> <<[k |-> "field", v |-> "artist"], [k |-> "lit", v |-> "'s "], [k |-> "field", v |-> "hook"], [k |-> "lit", v |-> " eases you in. Not yet peak, but heading there."]>>,
        plain  |-> <<[k |-> "field", v |-> "artist"], [k |-> "lit", v |-> " bridges calm and active. Smooth transition mode."]>>],
       [hooked |-> <<[k |-> "field", v |-> "hook"], [k |-> "lit", v |-> " carries "], [k |-> "field", v |-> "artist"], [k |-> "lit", v |-> "'s ramp-up. Measured acceleration."]>>,
        plain  |-> <<[k |-> "field", v |-> "artist"], [k |-> "lit", v |-> ", gradual "], [k |-> "field", v |-> "genre"], [k |-> "lit", v |-> ". Primes the energy curve."]>>] >>,
    throwback |-> <<
       [hooked |-> <<[k |-> "field", v |-> "artist"], [k |-> "lit", v |-> ", "], [k |-> "field", v |-> "era"], [k |-> "lit", v |-> ". Familiar energy that keeps the mood up."]>>,
        plain  |-> <<[k |-> "field", v |-> "artist"], [k |-> "lit", v |-> ", "], [k |-> "field", v |-> "era"], [k |-> "lit", v |-> ". Familiar energy that keeps the mood up."]>>],
       [hooked |-> <<[k |-> "field", v |-> "artist"], [k |-> "lit", v |-> " from "], [k |-> "field", v |-> "era"], [k |-> "lit", v |-> ". You know this one-still lands."]>>,
        plain  |-> <<[k |-> "field", v |-> "artist"], [k |-> "lit", v |-> " from "], [k |-> "field", v |-> "era"], [k |-> "lit", v |-> ". You know this one-still lands."]>>],
       [hooked |-> <<[k |-> "field", v |-> "era"], [k |-> "lit", v |-> " "], [k |-> "field", v |-> "artist"], [k |-> "lit", v |-> ". Proven track, reliable energy."]>>,
        plain  |-> <<[k |-> "field", v |-> "era"], [k |-> "lit", v |-> " "], [k |-> "field", v |-> "artist"], [k |-> "lit", v |-> ". Proven track, reliable energy."]>>],
       [hooked |-> <<[k |-> "field", v |-> "artist"], [k |-> "lit", v |-> ", classic "], [k |-> "field", v |-> "era"], [k |-> "lit", v |-> ". Comfort without nostalgia drag."]>>,
        plain  |-> <<[k |-> "field", v |-> "artist"], [k |-> "lit", v |-> ", classic "], [k |-> "field", v |-> "era"], [k |-> "lit", v |-> ". Comfort without nostalgia drag."]>>],
       [hooked |-> <<[k |-> "field", v |-> "artist"], [k |-> "lit", v |-> " from back then. "], [k |-> "field", v |-> "era"], [k |-> "lit", v |-> " familiarity that still works now."]>>,
        plain  |-> <<[k |-> "field", v |-> "artist"], [k |-> "lit", v |-> " from back then. "], [k |-> "field", v |-> "era"], [k |-> "lit", v |-> " familiarity that still works now."]>>] >>,
    discovery |-> <<
       [hooked |-> <<[k |-> "field", v |-> "genre"], [k |-> "lit", v |-> " with a "], [k |-> "field", v |-> "vibe1or0"], [k |-> "lit", v |-> " edge. New pick, but fits what you already play."]>>,
        plain  |-> <<[k |-> "field", v |-> "genre"], [k |-> "lit", v |-> " with a "], [k |-> "field", v |-> "vibe1or0"], [k |-> "lit", v |-> " edge. New pick, but fits what you already play."]>>],
       [hooked |-> <<[k |-> "field", v |-> "artist"], [k |-> "lit", v |-> ", "], [k |-> "field", v |-> "vibe0"], [k |-> "lit", v |-> " "], [k |-> "field", v |-> "genre"], [k |-> "lit", v |-> ". Fresh find that aligns with your range."]>>,
        plain  |-> <<[k |-> "field", v |-> "artist"], [k |-> "lit", v |-> ", "], [k |-> "field", v |-> "vibe0"], [k |-> "lit", v |-> " "], [k |-> "field", v |-> "genre"], [k |-> "lit", v |-> ". Fresh find that aligns with your range."]>>],
       [hooked |-> <<[k |-> "field", v |-> "artist"], [k |-> "lit", v |-> " offers "], [k |-> "field", v |-> "vibe1or0"], [k |-> "lit", v |-> " "], [k |-> "field", v |-> "genre"], [k |-> "lit", v |-> ". New to you, not a risk."]>>,
        plain  |-> <<[k |-> "field", v |-> "artist"], [k |-> "lit", v |-> " offers "], [k |-> "field", v |-> "vibe1or0"], [k |-> "lit", v |-> " "], [k |-> "field", v |-> "genre"], [k |-> "lit", v |-> ". New to you, not a risk."]>>],
       [hooked |-> <<[k |-> "field", v |-> "artist"], [k |-> "lit", v |-> ", "], [k |-> "field", v |-> "genre"], [k |-> "lit", v |-> " adjacent to what you know. Safe exploration."]>>,
        plain  |-> <<[k |-> "field", v |-> "artist"], [k |-> "lit", v |-> ", "], [k |-> "field", v |-> "genre"], [k |-> "lit", v |-> " adjacent to what you know. Safe exploration."]>>],
       [hooked |-> <<[k |-> "field", v |-> "artist"], [k |-> "lit", v |-> ", "], [k |-> "field", v |-> "vibe0"], [k |-> "lit", v |-> " sound. Expands the mix without disrupting it."]>>,
        plain  |-> <<[k |-> "field", v |-> "artist"], [k |-> "lit", v |-> ", "], [k |-> "field", v |-> "vibe0"], [k |-> "lit", v |-> " sound. Expands the mix without disrupting it."]>>] >> ]

(***************************************************************************)
(* personalTrackReason and the picked.map of buildBlocks (first revision). *)
(***************************************************************************)
\* the value of ${...} in a template for track t
FieldValue(t, f) ==
  LET vibes == t.profile.vibes
      bold  == {i \in DOMAIN vibes : vibes[i] \in {"driving", "anthemic", "bold"}}
  IN  IF f = "artist" THEN t.artist
      ELSE IF f = "hook" THEN t.profile.hook
      ELSE IF f = "genre" THEN t.profile.genre
      ELSE IF f = "era" THEN t.profile.era
      ELSE IF f = "vibe0" THEN vibes[1]
      ELSE IF f = "vibe1or0" THEN (IF Len(vibes) >= 2 THEN vibes[2] ELSE vibes[1])
      ELSE IF f = "vibe0orSmooth" THEN (IF Len(vibes) >= 1 THEN vibes[1] ELSE "smooth")
      ELSE IF f = "vibe0orMellow" THEN (IF Len(vibes) >= 1 THEN vibes[1] ELSE "mellow")
      ELSE IF bold # {} THEN vibes[CHOOSE i \in bold : \A j \in bold : i <= j]
      ELSE vibes[1]

\* template(track, useHook): the text, as the sequence of its parts
ApplyTemplate(template, t, useHook) ==
  LET parts == IF useHook THEN template.hooked ELSE template.plain
  IN  [i \in DOMAIN parts |->
         IF parts[i].k = "lit" THEN parts[i].v ELSE FieldValue(t, parts[i].v)]

\* the first template index not in usedTemplates, or usedTemplates.size %
\* templates.length when all are used; counted from 0
NextTemplate(templates, usedTemplates) ==
  LET free == {i \in 0..(Len(templates) - 1) : i \notin usedTemplates}
  IN  IF free # {} THEN CHOOSE i \in free : \A j \in free : i <= j
      ELSE Cardinality(usedTemplates) % Len(templates)

\* variant: the hook never recorded in usedHooks
personalTrackReasonForgetful(track, intent, usedHooks, usedTemplates) ==
  LET hook          == track.profile.hook
      useHook       == hook \notin usedHooks
      templates     == IF intent \in DOMAIN REASON_TEMPLATES
                       THEN REASON_TEMPLATES[intent] ELSE REASON_TEMPLATES.discovery
      templateIndex == NextTemplate(templates, usedTemplates)
  IN  [ reason        |-> ApplyTemplate(templates[templateIndex + 1], track, useHook),
        usedHooks     |-> usedHooks,
        usedTemplates |-> usedTemplates \cup {templateIndex} ]

\* personalTrackReason: the reason, and the two sets it updates in place
personalTrackReason(track, intent, usedHooks, usedTemplates) ==
  LET hook          == track.profile.hook
      useHook       == hook \notin usedHooks
      templates     == IF intent \in DOMAIN REASON_TEMPLATES
                       THEN REASON_TEMPLATES[intent] ELSE REASON_TEMPLATES.discovery
      templateIndex == NextTemplate(templates, usedTemplates)
  IN  [ reason        |-> ApplyTemplate(templates[templateIndex + 1], track, useHook),
        usedHooks     |-> usedHooks \cup {hook},
        usedTemplates |-> usedTemplates \cup {templateIndex} ]

(***************************************************************************)
(* One block of buildBlocks (first revision) at a time: the picked tracks  *)
(* get their reasons one by one, usedHooks and usedTemplates starting      *)
(* empty in every block.                                                   *)
(***************************************************************************)
HookHead == 4

\* the tracks of the catalog whose hook is also the hook of another track
SharedHook ==
  {i \in DOMAIN HOOK_TRACKS :
     \E j \in DOMAIN HOOK_TRACKS :
       j # i /\ HOOK_TRACKS[j].profile.hook = HOOK_TRACKS[i].profile.hook}

\* the tracks the blocks are drawn from: the first HookHead of the catalog
\* and the tracks that share a hook
HookPool == {i \in DOMAIN HOOK_TRACKS : i <= HookHead} \cup SharedHook

\* what pickTracksForIntent can hand over: five distinct tracks, in any order
PickedFive ==
  {p \in [1..5 -> HookPool] : \A i \in 1..5, j \in 1..5 : i # j => p[i] # p[j]}

PlanIntents == {"focus", "reset", "energy", "ramp", "throwback", "discovery"}

BlockDone ==
  probe.fn = "buildBlocks" /\ Len(probe.result.reasons) = Len(probe.arg.picked)

\* the plan.map callback starts on a block: new usedHooks, new usedTemplates
BeginBlock(intent, picked) ==
  /\ probe.fn = "none" \/ BlockDone
  /\ probe' = [fn |-> "buildBlocks", arg |-> [intent |-> intent, picked |-> picked],
               result |-> [reasons |-> <<>>, usedHooks |-> {}, usedTemplates |-> {}]]
  /\ UNCHANGED <<catalog, epochMinute, oembedService, now, oembedCache, requests>>

\* the picked.map callback on the next track of the block (engine my_engine)
ReasonNext ==
  /\ probe.fn = "buildBlocks"
  /\ Len(probe.result.reasons) < Len(probe.arg.picked)
  /\ LET k == Len(probe.result.reasons) + 1
         r == personalTrackReason(HOOK_TRACKS[probe.arg.picked[k]], probe.arg.intent,
                                  probe.result.usedHooks, probe.result.usedTemplates)
     IN  probe' = [probe EXCEPT !.result =
                     [reasons |-> Append(probe.result.reasons, r.reason),
                      usedHooks |-> r.usedHooks, usedTemplates |-> r.usedTemplates]]
  /\ UNCHANGED <<catalog, epochMinute, oembedService, now, oembedCache, requests>>

NextHooks ==
  \/ \E intent \in PlanIntents, picked \in PickedFive : BeginBlock(intent, picked)
  \/ ReasonNext

SpecHooks == InitBucket /\ [][NextHooks]_vars


(***************************************************************************)
(* personalTrackReason called over and over within one block, past the     *)
(* five calls buildBlocks makes for its five picked tracks: SpecTemplates. *)
(***************************************************************************)
MaxReasons == 7

TemplatesOf(intent) ==
  IF intent \in DOMAIN REASON_TEMPLATES
  THEN REASON_TEMPLATES[intent] ELSE REASON_TEMPLATES.discovery

\* the next call for a track of the pool, usedHooks and usedTemplates being
\* those the earlier calls of the block left; indexes records templateIndex
ReasonCall(k) ==
  /\ probe.fn = "personalTrackReason"
  /\ Len(probe.result.indexes) < MaxReasons
  /\ LET r == personalTrackReason(HOOK_TRACKS[k], probe.arg.intent,
                                  probe.result.usedHooks, probe.result.usedTemplates)
     IN  probe' = [probe EXCEPT !.result =
                     [indexes |-> Append(probe.result.indexes,
                                         NextTemplate(TemplatesOf(probe.arg.intent),
                                                      probe.result.usedTemplates)),
                      usedHooks |-> r.usedHooks, usedTemplates |-> r.usedTemplates]]
  /\ UNCHANGED <<catalog, epochMinute, oembedService, now, oembedCache, requests>>

InitTemplates ==
  /\ catalog = <<>>
  /\ epochMinute = 0
  /\ oembedService = <<>>
  /\ now = 0
  /\ oembedCache = <<>>
  /\ requests = <<>>
  /\ \E intent \in PlanIntents :
        probe = [fn |-> "personalTrackReason", arg |-> [intent |-> intent],
                 result |-> [indexes |-> <<>>, usedHooks |-> {}, usedTemplates |-> {}]]

NextTemplates == \E k \in HookPool : ReasonCall(k)

SpecTemplates == InitTemplates /\ [][NextTemplates]_vars

(***************************************************************************)
(* scoreTrack, the map callback and the two loops of pickTracksForIntent   *)
(* applied on their own over the whole catalog: SpecScore.                 *)
(***************************************************************************)
AllIntents == {"focus", "energy", "ramp", "reset", "throwback", "discovery"}

AllTweaks == {"none", "more_new", "more_familiar", "no_repeats"}

AllSituations == DOMAIN SITUATION_BIAS

AllBuckets == {"morning", "midday", "evening", "late_night"}

MaxTags == 2

\* the tag lists of the catalog and every list of at most MaxTags of the six
\* intents, the tag discovery included, which no track of the catalog carries
TagLists ==
  {MOCK_TRACKS[k].tags : k \in DOMAIN MOCK_TRACKS}
  \cup UNION {[1..n -> AllIntents] : n \in 0..MaxTags}

\* scoreTrack(t, intent, tweak) for a track with the tags `tags`
ScoreInputs ==
  {[call |-> "scoreTrack", tags |-> tags, intent |-> intent, tweak |-> tweak] :
     tags \in TagLists, intent \in AllIntents, tweak \in AllTweaks}

\* the block index of the callback and whether the track is in globalSeen:
\* nothing is in globalSeen in block 0
SeenCases ==
  {[blockIndex |-> 0, has |-> FALSE], [blockIndex |-> 1, has |-> TRUE],
   [blockIndex |-> 3, has |-> FALSE], [blockIndex |-> 3, has |-> TRUE]}

\* the map callback for the track at position k
TrackScoreInputs ==
  {[call |-> "TrackScore", k |-> k, intent |-> intent, tweak |-> tweak,
    situation |-> situation, seen |-> c] :
     k \in DOMAIN MOCK_TRACKS, intent \in AllIntents, tweak \in AllTweaks,
     situation \in AllSituations, c \in SeenCases}

\* the plans: the four time-bucket plans and the six situation presets
PlanKeys ==
  {[bucket |-> b, situation |-> "auto"] : b \in AllBuckets}
  \cup {[bucket |-> "morning", situation |-> s] : s \in AllSituations \ {"auto"}}

\* block idx of a plan, selected after the blocks before it
PickInputs ==
  UNION {{[call |-> "pickTracksForIntent", plan |-> p, tweak |-> tweak, engine |-> engine,
           idx |-> idx] :
            tweak \in AllTweaks, engine \in {"my_engine", "spotify_ai"},
            idx \in 0..(Len(blockPlan(p.bucket, p.situation)) - 1)} : p \in PlanKeys}

IdsOf(tracks) == [k \in DOMAIN tracks |-> tracks[k].id]

IdScores(scored) ==
  [i \in DOMAIN scored |-> [id |-> scored[i].t.id, score |-> scored[i].score]]

ScoreProbe(t, a) ==
  [fn |-> "scoreTrack", arg |-> a,
   result |-> [tags |-> t.tags, score |-> scoreTrack(t, a.intent, a.tweak)]]

ApplyScoreTrack ==
  /\ probe.fn = "none"
  /\ probe.arg.call = "scoreTrack"
  /\ probe' = ScoreProbe([tags |-> probe.arg.tags], probe.arg)
  /\ UNCHANGED <<catalog, epochMinute, oembedService, now, oembedCache, requests>>

TrackScoreProbe(t, a) ==
  [fn |-> "TrackScore", arg |-> a,
   result |-> [tags |-> t.tags, profile |-> t.profile,
               base  |-> scoreTrack(t, a.intent, a.tweak),
               score |-> TrackScore(t, a.intent, a.tweak, a.situation, a.seen.blockIndex,
                                    IF a.seen.has THEN {t.id} ELSE {})]]

ApplyTrackScore ==
  /\ probe.fn = "none"
  /\ probe.arg.call = "TrackScore"
  /\ probe' = TrackScoreProbe(catalog[probe.arg.k], probe.arg)
  /\ UNCHANGED <<catalog, epochMinute, oembedService, now, oembedCache, requests>>

\* what the two loops made of the ordered tracks
PickedProbe(scored, ordered, first, seen) ==
  [scored |-> IdScores(scored), seen |-> seen,
   first  |-> IdsOf(first.picked),
   picked |-> IdsOf(FillUp(ordered, first).picked)]

OrderedProbe(scored, ordered, tweak, seen, globalSeen) ==
  PickedProbe(scored, ordered,
              FirstLoop(ordered, tweak,
                        [picked |-> <<>>, seen |-> seen, globalSeen |-> globalSeen],
                        1, Len(ordered)),
              seen)

ScoredProbe(scored, tweak, seen, globalSeen) ==
  OrderedProbe(scored, SortByScoreDesc(scored), tweak, seen, globalSeen)

\* block idx of the plan, selected after the blocks acc of the same response
BlockProbe(tracks, plan, tweak, seed, situation, idx, acc) ==
  ScoredProbe(ScoreAll(seededShuffle(tracks, Add32(seed, idx * 101)), plan[idx + 1].intent,
                       tweak, situation, idx, acc.globalSeen),
              tweak, acc.seen, acc.globalSeen)

PickProbe(tracks, plan, tweak, seed, situation, idx) ==
  BlockProbe(tracks, plan, tweak, seed, situation, idx,
             PickLoop(tracks, plan, tweak, seed, situation,
                      [blocks |-> <<>>, seen |-> {}, globalSeen |-> {}], 0, idx - 1))

ApplyPick ==
  /\ probe.fn = "none"
  /\ probe.arg.call = "pickTracksForIntent"
  /\ probe.arg.idx < Len(blockPlan(probe.arg.plan.bucket, probe.arg.plan.situation))
  /\ probe' = [fn |-> "pickTracksForIntent", arg |-> probe.arg,
               result |-> PickProbe(catalog,
                                    blockPlan(probe.arg.plan.bucket, probe.arg.plan.situation),
                                    probe.arg.tweak,
                                    stableHash(seedKey(probe.arg.plan.bucket, probe.arg.tweak,
                                                       probe.arg.engine,
                                                       probe.arg.plan.situation,
                                                       NoOverride)),
                                    probe.arg.plan.situation, probe.arg.idx)]
  /\ UNCHANGED <<catalog, epochMinute, oembedService, now, oembedCache, requests>>

\* base seeds: 0, where xorshift32 stays at 0; 1; the hash of
\* "morning|none|my_engine|auto|8:30"; and two seeds so close to 2^32 that
\* seed + idx * 101 passes it
BaseSeeds ==
  {<<0, 0>>, <<0, 1>>, <<47349, 15258>>, <<65535, 65535>>, <<65535, 65300>>}

\* seededShuffle(arr, seed + idx * 101) for the first n ids of the catalog
ShuffleInputs ==
  {[call |-> "seededShuffle", n |-> n, base |-> base, idx |-> idx] :
     n \in 0..Len(MOCK_TRACKS), base \in BaseSeeds, idx \in 0..4}

\* the pairs (i, j) of the turns k.. of the loop over n elements, turn k
\* handling i = n - k with x1 the generator state after its call of rand()
RECURSIVE SwapTurns(_, _, _, _)
SwapTurn(n, x1, k, acc) ==
  IF x1 = x1
  THEN SwapTurns(n, x1, k + 1,
                 Append(acc, [i |-> n - k, j |-> RandIndex(x1, (n - k) + 1)]))
  ELSE acc

SwapTurns(n, x, k, acc) ==
  IF k > n - 1 THEN acc ELSE SwapTurn(n, Xorshift32(x), k, acc)

SwapIndexes(n, seed) == SwapTurns(n, seed, 1, <<>>)

\* the call: arr is the caller's array once the call has returned (the
\* function works on arr.slice()), a the array returned
ShuffleProbe(arr, seed) ==
  [arr |-> arr, a |-> seededShuffle(arr, seed), swaps |-> SwapIndexes(Len(arr), seed)]

ApplyShuffle ==
  /\ probe.fn = "none"
  /\ probe.arg.call = "seededShuffle"
  /\ probe' = [fn |-> "seededShuffle", arg |-> probe.arg,
               result |-> ShuffleProbe(IdsOf(SubSeq(catalog, 1, probe.arg.n)),
                                       Add32(probe.arg.base, probe.arg.idx * 101))]
  /\ UNCHANGED <<catalog, epochMinute, oembedService, now, oembedCache, requests>>

MidCatalog == 7

\* the first `upto` blocks of a plan selected over the first n tracks of the
\* catalog: fewer than five tracks, fewer than two blocks of five, all of them
BlocksInputs ==
  UNION {{[call |-> "buildBlocksWithArtwork", plan |-> p, tweak |-> tweak, n |-> n,
           upto |-> upto] :
            tweak \in AllTweaks, n \in {ShortCatalog, MidCatalog, Len(MOCK_TRACKS)},
            upto \in 1..Len(blockPlan(p.bucket, p.situation))} : p \in PlanKeys}

\* the blocks and the two sets once plan.map has handled `upto` entries
BlocksProbe(acc) ==
  [blocks |-> [b \in DOMAIN acc.blocks |-> IdsOf(acc.blocks[b].picked)],
   seen |-> acc.seen, globalSeen |-> acc.globalSeen]

ApplyBlocks ==
  /\ probe.fn = "none"
  /\ probe.arg.call = "buildBlocksWithArtwork"
  /\ probe' = [fn |-> "buildBlocksWithArtwork", arg |-> probe.arg,
               result |-> BlocksProbe(
                            PickLoop(SubSeq(catalog, 1, probe.arg.n),
                                     blockPlan(probe.arg.plan.bucket, probe.arg.plan.situation),
                                     probe.arg.tweak,
                                     stableHash(seedKey(probe.arg.plan.bucket, probe.arg.tweak,
                                                        "my_engine", probe.arg.plan.situation,
                                                        NoOverride)),
                                     probe.arg.plan.situation,
                                     [blocks |-> <<>>, seen |-> {}, globalSeen |-> {}],
                                     0, probe.arg.upto - 1))]
  /\ UNCHANGED <<catalog, epochMinute, oembedService, now, oembedCache, requests>>

\* the ?time= overrides that enter the key as H:M, and none ("now")
KeyOverrides ==
  {NoOverride}
  \cup {[isNull |-> FALSE, hours |-> h, minutes |-> m] :
          h \in {0, 8, 13, 17}, m \in {5, 30}}

\* the bucket that goes with an override; any bucket with none
KeyBuckets(override) ==
  IF override.isNull THEN AllBuckets
  ELSE {getTimeBucketFromMinutes((override.hours * 60) + override.minutes)}

\* the fields GET puts in seedKey
SeedInputs ==
  UNION {{[call |-> "stableHash", bucket |-> b, tweak |-> tweak, engine |-> engine,
           situation |-> situation, override |-> o] :
            b \in KeyBuckets(o), tweak \in AllTweaks,
            engine \in {"my_engine", "spotify_ai"}, situation \in AllSituations}
           : o \in KeyOverrides}

SeedOf(a) == stableHash(seedKey(a.bucket, a.tweak, a.engine, a.situation, a.override))

ApplySeed ==
  /\ probe.fn = "none"
  /\ probe.arg.call = "stableHash"
  /\ probe' = [fn |-> "stableHash", arg |-> probe.arg,
               result |-> [key  |-> seedKey(probe.arg.bucket, probe.arg.tweak,
                                            probe.arg.engine, probe.arg.situation,
                                            probe.arg.override),
                           seed |-> SeedOf(probe.arg)]]
  /\ UNCHANGED <<catalog, epochMinute, oembedService, now, oembedCache, requests>>

InitScore ==
  /\ catalog = MOCK_TRACKS
  /\ epochMinute = 0
  /\ oembedService = <<>>
  /\ now = 0
  /\ oembedCache = <<>>
  /\ requests = <<>>
  /\ \E a \in ScoreInputs \cup TrackScoreInputs \cup PickInputs \cup ShuffleInputs
               \cup BlocksInputs \cup SeedInputs :
        probe = [fn |-> "none", arg |-> a, result |-> "none"]

NextScore == ApplyScoreTrack \/ ApplyTrackScore \/ ApplyPick \/ ApplyShuffle
  \/ ApplyBlocks \/ ApplySeed

SpecScore == InitScore /\ [][NextScore]_vars
(***************************************************************************)
(* The page (src/app/page.tsx): the state of the TimeMixPage component,    *)
(* its handlers and the request each of them issues: SpecPage.             *)
(*                                                                         *)
(* A handler runs over the state of the render it was created in; the      *)
(* setState calls it makes take effect with the next render, after the     *)
(* handler has returned.  The controls are rendered only when the page is  *)
(* neither loading nor showing an error, so one request is in flight at a  *)
(* time.                                                                   *)
(***************************************************************************)
\* a value that `if (value)` lets through
Truthy(v) == v # Undefined /\ v # ""

\* the URLSearchParams fetchMix builds: a key is set only for a truthy value,
\* and situation only when it is not "auto"
MixParams(tweak, time, engine, situationParam) ==
  LET keys == {k \in {"tweak", "time", "engine", "situation"} :
                 \/ k = "tweak" /\ Truthy(tweak)
                 \/ k = "time" /\ Truthy(time)
                 \/ k = "engine" /\ Truthy(engine)
                 \/ k = "situation" /\ Truthy(situationParam) /\ situationParam # "auto"}
  IN  [k \in keys |-> CASE k = "tweak" -> tweak
                        [] k = "time" -> time
                        [] k = "engine" -> engine
                        [] OTHER -> situationParam]

\* fetchMix up to its await: loading, error and activeTweak are set and the
\* request is sent
fetchMix(page, tweak, time, engine, situationParam) ==
  [page EXCEPT !.loading = TRUE,
               !.error = Null,
               !.activeTweak = IF Truthy(tweak) THEN tweak ELSE "",
               !.request = [sent |-> TRUE,
                            params |-> MixParams(tweak, time, engine, situationParam)]]

OrUndefined(v) == IF Truthy(v) THEN v ELSE Undefined

\* the component after useState
NewPage ==
  [mounted |-> FALSE, mixData |-> [isNull |-> TRUE, answers |-> <<>>], loading |-> TRUE, error |-> Null,
   activeTweak |-> "", simulatedTime |-> "", comparisonMode |-> "my_engine",
   situation |-> "auto", request |-> [sent |-> FALSE, params |-> <<>>], event |-> <<"none", "">>]

\* the local times at which the page is opened
OpenTimes == {"09:05", "21:40"}

\* the values typed into the time input, the empty value of a cleared input
\* among them
TypedTimes == {"", "06:15", "13:00"}

QuickTimes == {"08:30", "13:00", "19:30", "23:30"}

Tweaks == {"", "more_new", "more_familiar", "no_repeats"}

Engines == {"my_engine", "spotify_ai"}

\* four of the ten situations of the page
PageSituations == {"auto", "working out", "dinner", "chill"}

\* the controls are on the page
Shown(page) == page.mounted /\ ~page.loading /\ page.error = Null /\ ~page.mixData.isNull

\* the two effects after the first render
Mount(clock) ==
  /\ probe.fn = "TimeMixPage"
  /\ ~probe.result.mounted
  /\ probe' = [probe EXCEPT !.result =
                 [fetchMix(probe.result, Undefined, Undefined, Undefined, Undefined)
                    EXCEPT !.mounted = TRUE, !.simulatedTime = clock,
                           !.event = <<"mount", clock>>]]
  /\ UNCHANGED <<catalog, epochMinute, oembedService, now, oembedCache, requests>>

handleTweakChange(tweak) ==
  /\ probe.fn = "TimeMixPage"
  /\ Shown(probe.result)
  /\ LET p == probe.result
     IN  probe' = [probe EXCEPT !.result =
                     [fetchMix(p, tweak, p.simulatedTime, p.comparisonMode, p.situation)
                        EXCEPT !.event = <<"handleTweakChange", tweak>>]]
  /\ UNCHANGED <<catalog, epochMinute, oembedService, now, oembedCache, requests>>

handleTimeChange(time) ==
  /\ probe.fn = "TimeMixPage"
  /\ Shown(probe.result)
  /\ LET p == probe.result
     IN  probe' = [probe EXCEPT !.result =
                     [fetchMix(p, OrUndefined(p.activeTweak), time, p.comparisonMode, p.situation)
                        EXCEPT !.simulatedTime = time,
                               !.event = <<"handleTimeChange", time>>]]
  /\ UNCHANGED <<catalog, epochMinute, oembedService, now, oembedCache, requests>>

handleQuickTime(time) ==
  /\ probe.fn = "TimeMixPage"
  /\ Shown(probe.result)
  /\ LET p == probe.result
     IN  probe' = [probe EXCEPT !.result =
                     [fetchMix(p, p.activeTweak, p.simulatedTime, p.comparisonMode, p.situation)
                        EXCEPT !.simulatedTime = time,
                               !.event = <<"handleQuickTime", time>>]]
  /\ UNCHANGED <<catalog, epochMinute, oembedService, now, oembedCache, requests>>

handleEngineToggle(engine) ==
  /\ probe.fn = "TimeMixPage"
  /\ Shown(probe.result)
  /\ LET p == probe.result
     IN  probe' = [probe EXCEPT !.result =
                     [fetchMix(p, p.activeTweak, p.simulatedTime, engine, p.situation)
                        EXCEPT !.comparisonMode = engine,
                               !.event = <<"handleEngineToggle", engine>>]]
  /\ UNCHANGED <<catalog, epochMinute, oembedService, now, oembedCache, requests>>

handleSituationChange(newSituation) ==
  /\ probe.fn = "TimeMixPage"
  /\ Shown(probe.result)
  /\ LET p == probe.result
     IN  probe' = [probe EXCEPT !.result =
                     [fetchMix(p, p.activeTweak, p.simulatedTime, p.comparisonMode, newSituation)
                        EXCEPT !.situation = newSituation,
                               !.event = <<"handleSituationChange", newSituation>>]]
  /\ UNCHANGED <<catalog, epochMinute, oembedService, now, oembedCache, requests>>

\* the Retry button of the error view
Retry ==
  /\ probe.fn = "TimeMixPage"
  /\ probe.result.mounted /\ ~probe.result.loading /\ probe.result.error # Null
  /\ LET p == probe.result
     IN  probe' = [probe EXCEPT !.result =
                     [fetchMix(p, OrUndefined(p.activeTweak), OrUndefined(p.simulatedTime),
                               p.comparisonMode, p.situation)
                        EXCEPT !.event = <<"retry", "">>]]
  /\ UNCHANGED <<catalog, epochMinute, oembedService, now, oembedCache, requests>>

\* the response of the request in flight is ok: setMixData, setLoading(false)
ResponseOk ==
  /\ probe.fn = "TimeMixPage"
  /\ probe.result.mounted /\ probe.result.loading
  /\ probe' = [probe EXCEPT !.result.mixData = [isNull |-> FALSE,
                                                 answers |-> probe.result.request.params],
                            !.result.loading = FALSE]
  /\ UNCHANGED <<catalog, epochMinute, oembedService, now, oembedCache, requests>>

\* the response is not ok or fetch throws: setError, setLoading(false)
ResponseFailed ==
  /\ probe.fn = "TimeMixPage"
  /\ probe.result.mounted /\ probe.result.loading
  /\ probe' = [probe EXCEPT !.result.error = "Failed to fetch mix",
                            !.result.loading = FALSE]
  /\ UNCHANGED <<catalog, epochMinute, oembedService, now, oembedCache, requests>>

InitPage ==
  /\ catalog = <<>>
  /\ epochMinute = 0
  /\ oembedService = <<>>
  /\ now = 0
  /\ oembedCache = <<>>
  /\ requests = <<>>
  /\ probe = [fn |-> "TimeMixPage", arg |-> "page", result |-> NewPage]

NextPage ==
  \/ \E clock \in OpenTimes : Mount(clock)
  \/ \E tweak \in Tweaks : handleTweakChange(tweak)
  \/ \E time \in TypedTimes : handleTimeChange(time)
  \/ \E time \in QuickTimes : handleQuickTime(time)
  \/ \E engine \in Engines : handleEngineToggle(engine)
  \/ \E newSituation \in PageSituations : handleSituationChange(newSituation)
  \/ Retry
  \/ ResponseOk
  \/ ResponseFailed

SpecPage == InitPage /\ [][NextPage]_vars

(***************************************************************************)
(* getTimeBucket of src/lib/time-utils.ts applied to every local time of   *)
(* the day: SpecClock.                                                     *)
(***************************************************************************)
\* noon counted as morning
getTimeBucketNoonInMorning(date) ==
  LET hour == date.hours
  IN  IF hour >= 7 /\ hour <= 12 THEN "morning"
      ELSE IF hour >= 12 /\ hour < 17 THEN "midday"
      ELSE IF hour >= 17 /\ hour < 22 THEN "evening"
      ELSE "late_night"

\* a Date is its local hours and minutes; getHours() is the hours field
getTimeBucket(date) ==
  LET hour == date.hours
  IN  IF hour >= 7 /\ hour < 12 THEN "morning"
      ELSE IF hour >= 12 /\ hour < 17 THEN "midday"
      ELSE IF hour >= 17 /\ hour < 22 THEN "evening"
      ELSE "late_night"

\* the local times of a day
LocalTimes == [hours : 0..23, minutes : 0..59]

ApplyGetTimeBucket ==
  /\ probe.fn = "none"
  /\ probe.arg \in LocalTimes
  /\ probe' = [fn |-> "getTimeBucket", arg |-> probe.arg,
               result |-> getTimeBucket(probe.arg)]
  /\ UNCHANGED <<catalog, epochMinute, oembedService, now, oembedCache, requests>>

InitClock ==
  /\ catalog = <<>>
  /\ epochMinute = 0
  /\ oembedService = <<>>
  /\ now = 0
  /\ oembedCache = <<>>
  /\ requests = <<>>
  /\ \E date \in LocalTimes : probe = [fn |-> "none", arg |-> date, result |-> "none"]

NextClock == ApplyGetTimeBucket

SpecClock == InitClock /\ [][NextClock]_vars

(***************************************************************************)
(* Properties.                                                             *)
(***************************************************************************)
Done(r) == r.status = "done"

Min(a, b) == IF a < b THEN a ELSE b

\* the ids of the tracks of block number b of a selection, in order
PickedIds(picks, b) == [k \in DOMAIN picks[b].picked |-> picks[b].picked[k].id]

\* the ids of the tracks of block number b of a response, in order
TrackIds(blocks, b) == [k \in DOMAIN blocks[b].tracks |-> blocks[b].tracks[k].id]

\* what the selection decides of a response: everything but the three fields
\* that are read from the enrichment cache
Selection(blocks) ==
  [b \in DOMAIN blocks |->
     [id |-> blocks[b].id, title |-> blocks[b].title, subtitle |-> blocks[b].subtitle,
      why_now |-> blocks[b].why_now,
      tracks |-> [k \in DOMAIN blocks[b].tracks |->
                    [id |-> blocks[b].tracks[k].id,
                     reason |-> blocks[b].tracks[k].reason,
                     reason_signal |-> blocks[b].tracks[k].reason_signal,
                     track_url |-> blocks[b].tracks[k].track_url]]]]

SameResolvedParameters(r1, r2) ==
  /\ r1.time_bucket = r2.time_bucket
  /\ r1.override = r2.override
  /\ r1.tweak = r2.tweak
  /\ r1.engine = r2.engine
  /\ r1.situation = r2.situation

\* C1 (as amended): two responses to requests that resolve to the same time
\* override (or, without one, the same time bucket), tweak, engine and
\* situation have the same blocks in the same order, with the same titles,
\* subtitles and why_now, the same track ids in the same order, the same
\* reasons, reason_signals and track_urls, whatever ran in between and whatever
\* the enrichment cache holds; name, artist and artwork_url are left out.
C1_Determinism ==
  \A i \in DOMAIN requests, j \in DOMAIN requests :
     (Done(requests[i]) /\ Done(requests[j])
        /\ SameResolvedParameters(requests[i], requests[j]))
     => Selection(requests[i].blocks) = Selection(requests[j].blocks)

\* two responses to the same parameters, given at different times, whose
\* enriched fields differ
C1_Witness ==
  \E i \in DOMAIN requests, j \in DOMAIN requests :
     /\ Done(requests[i]) /\ Done(requests[j])
     /\ SameResolvedParameters(requests[i], requests[j])
     /\ requests[i].generated_at < requests[j].generated_at
     /\ requests[i].blocks # <<>>
     /\ requests[i].blocks # requests[j].blocks

\* C1 (as stated): two responses to the same query have identical blocks,
\* per-track fields included.
C1_IdenticalBlocks ==
  \A i \in DOMAIN requests, j \in DOMAIN requests :
     (Done(requests[i]) /\ Done(requests[j]) /\ requests[i].query = requests[j].query)
     => requests[i].blocks = requests[j].blocks

\* C2: every block of every request holds exactly min(5, catalog size) tracks,
\* whatever the tweak and the situation, and holds every track of a catalog of
\* fewer than 5.
C2_Cardinality ==
  \A rid \in DOMAIN requests :
     LET r == requests[rid]
     IN  /\ \A b \in DOMAIN r.picks :
              /\ Len(r.picks[b].picked) = Min(5, Len(catalog))
              /\ Len(catalog) < 5 =>
                   Range(PickedIds(r.picks, b)) = {catalog[i].id : i \in DOMAIN catalog}
         /\ Done(r) => \A b \in DOMAIN r.blocks :
                          Len(r.blocks[b].tracks) = Min(5, Len(catalog))

\* a no_repeats response over the whole catalog whose last block had to be
\* filled up with a track of an earlier block
C2_Witness ==
  \E rid \in DOMAIN requests :
     LET r == requests[rid]
     IN  /\ Done(r) /\ r.tweak = "no_repeats" /\ Len(catalog) >= 5
         /\ \E b1 \in DOMAIN r.blocks, b2 \in DOMAIN r.blocks :
              /\ b1 < b2
              /\ Range(TrackIds(r.blocks, b1)) \cap Range(TrackIds(r.blocks, b2)) # {}
              /\ Len(r.blocks[b2].tracks) = 5

\* every track id of a selection, block after block
AllPickedIds(picks) == Concat([b \in DOMAIN picks |-> PickedIds(picks, b)])

\* C3: with tweak = no_repeats and a catalog of at least 5 x (number of blocks)
\* tracks, no track id occurs twice in the response, across blocks or within
\* one.
C3_NoRepeats ==
  \A rid \in DOMAIN requests :
     LET r == requests[rid]
     IN  (r.tweak = "no_repeats" /\ Len(catalog) >= 5 * Len(r.picks))
         => /\ Cardinality(Range(AllPickedIds(r.picks))) = Len(AllPickedIds(r.picks))
            /\ Done(r) =>
                 \A b1 \in DOMAIN r.blocks, b2 \in DOMAIN r.blocks :
                    \A k1 \in DOMAIN r.blocks[b1].tracks, k2 \in DOMAIN r.blocks[b2].tracks :
                       r.blocks[b1].tracks[k1].id = r.blocks[b2].tracks[k2].id
                       => (b1 = b2 /\ k1 = k2)

\* a no_repeats response of four blocks of five over the whole catalog
C3_Witness ==
  \E rid \in DOMAIN requests :
     LET r == requests[rid]
     IN  /\ Done(r) /\ r.tweak = "no_repeats"
         /\ Len(r.blocks) = 4 /\ Len(catalog) >= 5 * Len(r.blocks)
         /\ Cardinality(Range(AllPickedIds(r.picks))) = 20

\* the bucket of a minute of the day as the boundaries are specified
BucketOnBoundaries(m) ==
  IF m >= 420 /\ m < 720 THEN "morning"
  ELSE IF m >= 720 /\ m < 1020 THEN "midday"
  ELSE IF m >= 1020 /\ m < 1320 THEN "evening"
  ELSE "late_night"

\* C4: on every minute 0..1439 getTimeBucketFromMinutes returns morning exactly
\* on [420,720), midday on [720,1020), evening on [1020,1320) and late_night
\* on every other minute.
C4_BucketBoundaries ==
  probe.fn = "getTimeBucketFromMinutes"
  => /\ probe.arg \in 0..1439
     /\ probe.result = BucketOnBoundaries(probe.arg)

\* minute 419, the last minute before morning
C4_Witness ==
  /\ probe.fn = "getTimeBucketFromMinutes"
  /\ probe.arg = 419
  /\ probe.result = "late_night"

Situations == {"auto", "working_out", "working", "studying", "dinner", "party", "chill"}

Intents(plan) == [b \in DOMAIN plan |-> plan[b].intent]

Titles(plan) == [b \in DOMAIN plan |-> plan[b].title]

\* the title the baseline engine gives to block number b (counted from 1)
GenericRotation(b) ==
  <<"Made for You", "Daily Mix", "Vibes", "Recommended", "More Like This">>[Min(b, 5)]

PresetTitles ==
  UNION {Range(Titles(SITUATION_PRESETS[s])) : s \in DOMAIN SITUATION_PRESETS}
  \cup UNION {Range(Titles(BUCKET_PRESETS[b])) : b \in DOMAIN BUCKET_PRESETS}

\* C6: with engine = spotify_ai every track has reason "" and no
\* reason_signal, and every block title is the one the generic rotation gives
\* to its index, never a title of a situation or time preset.
C6_BaselineMode ==
  \A rid \in DOMAIN requests :
     LET r == requests[rid]
     IN  (Done(r) /\ r.engine = "spotify_ai")
         => \A b \in DOMAIN r.blocks :
               /\ r.blocks[b].title = GenericRotation(b)
               /\ r.blocks[b].title \notin PresetTitles
               /\ \A k \in DOMAIN r.blocks[b].tracks :
                     /\ r.blocks[b].tracks[k].reason = ""
                     /\ r.blocks[b].tracks[k].reason_signal = Undefined

\* a baseline response of five blocks for ?situation=party
C6_Witness ==
  \E rid \in DOMAIN requests :
     LET r == requests[rid]
     IN  /\ Done(r) /\ r.engine = "spotify_ai" /\ r.situation = "party"
         /\ Len(r.blocks) = 5
         /\ r.blocks[5].title = "More Like This"
         /\ r.blocks[1].tracks[1].reason = ""

\* C7: getSituation returns one of the seven situations, and a token whose
\* normalized form is no key of the alias table resolves to auto, so that the
\* response carries the non-empty plan of the time bucket.
C7_SituationNormalization ==
  \A rid \in DOMAIN requests :
     LET r == requests[rid]
     IN  /\ r.situation \in Situations
         /\ Join(r.situation_normalized) \notin DOMAIN aliasMap
            => /\ r.situation = "auto"
               /\ r.picks # <<>>
               /\ Intents(r.picks) = Intents(BUCKET_PRESETS[r.time_bucket])

\* the value of a parameter that getTweak / getEngine accept
Accepted(raw, values) == Join(Trim(OrEmpty(raw))) \in values

\* the query with every absent or rejected parameter left out; `strict` says
\* whether a time must be HH:MM as it stands or after trimming
WithoutInvalid(q, strict) ==
  [q EXCEPT
     !.time   = IF q.time # Absent /\ TimePattern(IF strict THEN q.time ELSE Trim(q.time))
                THEN q.time ELSE Absent,
     !.tweak  = IF Accepted(q.tweak, {"more_new", "more_familiar", "no_repeats"})
                THEN q.tweak ELSE Absent,
     !.engine = IF Accepted(q.engine, {"spotify_ai"}) THEN q.engine ELSE Absent]

\* the request resolves and selects as the request for query q would
BuiltAsFor(r, q) ==
  LET o == NewRequest(catalog, q, r.generated_at, epochMinute)
  IN  /\ r.override = o.override /\ r.time_bucket = o.time_bucket
      /\ r.local_time_display = o.local_time_display
      /\ r.tweak = o.tweak /\ r.engine = o.engine
      /\ r.seed = o.seed /\ r.picks = o.picks

FailedLookups(r) == {o.url : o \in {p \in r.outcomes : p.outcome = "failed"}}

ResolvedElsewhere(rid, u) ==
  \E other \in DOMAIN requests \ {rid} :
     [url |-> u, outcome |-> "resolved"] \in requests[other].outcomes

HasCatalogFields(track, u) ==
  /\ track.name = TrackOfUrl(catalog, u).name
  /\ track.artist = TrackOfUrl(catalog, u).artist
  /\ track.artwork_url = Null

\* the track carries the fields a successful lookup of u stores
StoredBySuccess(track, u) ==
  \E shape \in oembedService[u] \cap BodyShapes :
     LET t == TrackOfUrl(catalog, u)
         c == CanonicalFromBody(OEmbedBody(t, shape), t.name, t.artist)
     IN  /\ track.name = c.name
         /\ track.artist = c.artist
         /\ track.artwork_url = c.artwork_url

\* C9 (as amended): whatever the oEmbed call does, the request goes on to its
\* response with the selected tracks in their order; a track whose lookup
\* failed is returned with its catalog name and artist and artwork_url = null
\* unless another request's lookup of the same URL succeeded, in which case
\* it may carry the fields that lookup stored in the cache.
C9_EnrichmentNeverFails ==
  \A rid \in DOMAIN requests :
     LET r == requests[rid]
     IN  /\ r.status \in {"enriching", "done"}
         /\ r.pending = {} => Done(r)
         /\ Done(r) =>
              /\ \A b \in DOMAIN r.picks : TrackIds(r.blocks, b) = PickedIds(r.picks, b)
              /\ \A u \in FailedLookups(r) :
                   \A b \in DOMAIN r.blocks : \A k \in DOMAIN r.blocks[b].tracks :
                      r.blocks[b].tracks[k].track_url = u
                      => \/ HasCatalogFields(r.blocks[b].tracks[k], u)
                         \/ /\ ResolvedElsewhere(rid, u)
                            /\ StoredBySuccess(r.blocks[b].tracks[k], u)

\* a response with a track whose lookup failed, carrying its catalog fields
C9_Witness ==
  \E rid \in DOMAIN requests :
     LET r == requests[rid]
     IN  /\ Done(r)
         /\ \E u \in FailedLookups(r) :
              \E b \in DOMAIN r.blocks : \E k \in DOMAIN r.blocks[b].tracks :
                 /\ r.blocks[b].tracks[k].track_url = u
                 /\ HasCatalogFields(r.blocks[b].tracks[k], u)

\* C9 (as stated): a track whose lookup failed is returned with its catalog
\* name and artist and artwork_url = null.
C9_FallbackFields ==
  \A rid \in DOMAIN requests :
     LET r == requests[rid]
     IN  Done(r) =>
           \A u \in FailedLookups(r) :
              \A b \in DOMAIN r.blocks : \A k \in DOMAIN r.blocks[b].tracks :
                 r.blocks[b].tracks[k].track_url = u
                 => HasCatalogFields(r.blocks[b].tracks[k], u)

\* the lookups request rid starts in a step
NewLookups(rid) ==
  LET old == IF rid \in DOMAIN requests THEN Len(requests[rid].lookups) ELSE 0
  IN  {requests'[rid].lookups[k] : k \in (old + 1)..Len(requests'[rid].lookups)}

\* C10: a lookup of a URL that starts less than 24 hours after the cached_at
\* of the URL's cache entry, stored by a success or by a failure, is answered
\* from the cache and issues no oEmbed call; a call is issued only when there
\* is no entry or the entry is 24 hours old or older.
C10_NegativeCaching ==
  [][\A rid \in DOMAIN requests' :
       /\ \A l \in NewLookups(rid) :
             l.from = "cache"
             <=> /\ l.url \in DOMAIN oembedCache'
                 /\ now' - oembedCache'[l.url].cached_at < 24 * 60 * 60 * 1000
       /\ requests'[rid].pending
            \subseteq (IF rid \in DOMAIN requests THEN requests[rid].pending ELSE {})
                      \cup {l.url : l \in {m \in NewLookups(rid) : m.from = "oembed"}}
       /\ {l.url : l \in {m \in NewLookups(rid) : m.from = "oembed"}}
            \subseteq requests'[rid].pending]_vars

\* a request that arrived 12 hours after a failed lookup and took the stored
\* fallback from the cache
C10_Witness ==
  \E rid \in DOMAIN requests, other \in DOMAIN requests :
     LET r == requests[rid]
     IN  /\ rid # other
         /\ Done(r)
         /\ \E u \in FailedLookups(requests[other]) :
              /\ [url |-> u, from |-> "cache"] \in Range(r.lookups)
              /\ oembedCache[u].artwork_url = Null
              /\ oembedCache[u].cached_at < r.generated_at
              /\ r.generated_at - oembedCache[u].cached_at < CACHE_TTL_MS

\* the hook phrase of the k-th track of the block under construction
HookOf(k) == HOOK_TRACKS[probe.arg.picked[k]].profile.hook

\* reason number k of the block carries the hook phrase of its track
Hooked(k) == Includes(probe.result.reasons[k], HookOf(k))

\* no two reasons written so far carry the same hook phrase of a picked track
NoSharedHook ==
  \A k \in DOMAIN probe.result.reasons, j \in DOMAIN probe.result.reasons :
    j # k => \A i \in DOMAIN probe.arg.picked :
               ~(/\ Includes(probe.result.reasons[j], HookOf(i))
                 /\ Includes(probe.result.reasons[k], HookOf(i)))

\* the intents whose templates come in a hook and a hook-free text
HookIntents == {"focus", "reset", "energy", "ramp"}

\* C11 (as amended): within one block no two reasons reference the same hook
\* phrase; in a block of intent focus, reset, energy or ramp the first track
\* with a given hook gets the text with the hook phrase and every later track
\* of the block with that hook gets the hook-free text; in a block of intent
\* throwback or discovery no reason carries a hook phrase.
C11_HookScarcity ==
  probe.fn = "buildBlocks" =>
    /\ NoSharedHook
    /\ \A k \in DOMAIN probe.result.reasons :
         Hooked(k) <=> /\ probe.arg.intent \in HookIntents
                       /\ \A j \in 1..(k - 1) : HookOf(j) # HookOf(k)

\* a block of a hook intent where a later track shares the hook of an earlier
\* one and has its reason
C11_Witness ==
  /\ probe.fn = "buildBlocks"
  /\ probe.arg.intent \in HookIntents
  /\ \E k \in DOMAIN probe.result.reasons :
       /\ \E j \in 1..(k - 1) : HookOf(j) = HookOf(k) /\ Hooked(j)
       /\ ~Hooked(k)

\* C11 as stated: whatever the intent of the block, the first track with a
\* given hook gets the hook phrasing and the later ones do not.
C11_FirstGetsHook ==
  probe.fn = "buildBlocks" =>
    /\ NoSharedHook
    /\ \A k \in DOMAIN probe.result.reasons :
         Hooked(k) <=> \A j \in 1..(k - 1) : HookOf(j) # HookOf(k)

\* C12: with engine = my_engine every track of every block of a response
\* carries a non-empty reason and a reason_signal, at every time, for every
\* situation and tweak.
C12_Explainability ==
  \A rid \in DOMAIN requests :
     LET r == requests[rid]
     IN  (Done(r) /\ r.engine = "my_engine")
         => \A b \in DOMAIN r.blocks :
               \A k \in DOMAIN r.blocks[b].tracks :
                  /\ r.blocks[b].tracks[k].reason \notin {"", Undefined, Null}
                  /\ r.blocks[b].tracks[k].reason_signal \notin {"", Undefined, Null}

\* a primary response to ?situation=dinner&tweak=more_new with its five
\* blocks of five explained tracks
C12_Witness ==
  \E rid \in DOMAIN requests :
     LET r == requests[rid]
     IN  /\ Done(r) /\ r.engine = "my_engine"
         /\ r.situation = "dinner" /\ r.tweak = "more_new"
         /\ Len(r.blocks) = 5
         /\ \A b \in DOMAIN r.blocks :
               /\ Len(r.blocks[b].tracks) = 5
               /\ r.blocks[b].tracks[5].reason # ""
               /\ r.blocks[b].tracks[5].reason_signal \in
                    {"Mood reset", "Familiar anchor", "Fresh angle"}

\* the query with the other engine
OtherEngine(q) ==
  [q EXCEPT !.engine = IF Accepted(q.engine, {"spotify_ai"})
                       THEN Absent
                       ELSE <<"s", "p", "o", "t", "i", "f", "y", "_", "a", "i">>]

AllPicked(picks) == [b \in DOMAIN picks |-> PickedIds(picks, b)]

\* C13: for the same time, tweak and situation the request with
\* engine = my_engine and the request with engine = spotify_ai select the same
\* track ids, in the same blocks and order.
C13_ComparisonSameTracks ==
  \A rid \in DOMAIN requests :
     LET r == requests[rid]
         o == NewRequest(catalog, OtherEngine(r.query), r.generated_at, epochMinute)
     IN  /\ o.engine # r.engine
         /\ AllPicked(o.picks) = AllPicked(r.picks)

PlanIntentsOf(plan) == {plan[k].intent : k \in DOMAIN plan}

\* C14: the plan of every situation uses only intents of ALLOWED_INTENTS for
\* that situation, in the tables and in every response built; the time-bucket
\* plans (situation auto) use only the six known intents.
C14_AllowedIntents ==
  /\ \A s \in DOMAIN ALLOWED_INTENTS : \A bucket \in AllBuckets :
        PlanIntentsOf(blockPlan(bucket, s)) \subseteq ALLOWED_INTENTS[s]
  /\ \A rid \in DOMAIN requests :
        LET r == requests[rid]
        IN  r.situation \in DOMAIN ALLOWED_INTENTS
            => \A b \in DOMAIN r.picks :
                  r.picks[b].intent \in ALLOWED_INTENTS[r.situation]

\* a response for ?situation=dinner with its five blocks, none of them an
\* energy, ramp or focus block
C14_Witness ==
  \E rid \in DOMAIN requests :
     LET r == requests[rid]
     IN  /\ Done(r) /\ r.situation = "dinner"
         /\ [b \in DOMAIN r.picks |-> r.picks[b].intent]
              = <<"reset", "throwback", "reset", "throwback", "discovery">>

PresetSubtitles ==
  UNION {{SITUATION_PRESETS[s][k].subtitle : k \in DOMAIN SITUATION_PRESETS[s]}
           : s \in DOMAIN SITUATION_PRESETS}
  \cup UNION {{BUCKET_PRESETS[b][k].subtitle : k \in DOMAIN BUCKET_PRESETS[b]}
           : b \in DOMAIN BUCKET_PRESETS}

\* C15: with engine = spotify_ai no block of the response carries the
\* subtitle of a situation preset or of a time-bucket preset.
C15_BaselineSubtitles ==
  \A rid \in DOMAIN requests :
     LET r == requests[rid]
     IN  (Done(r) /\ r.engine = "spotify_ai")
         => \A b \in DOMAIN r.blocks :
               r.blocks[b].subtitle \notin PresetSubtitles

\* C16: a request issues at most one canonicalizeTrack lookup per distinct
\* track URL, however many blocks selected the track, and never has more than
\* five lookups in flight: the pending lookups are those of one batch.
C16_EnrichmentDedupe ==
  \A rid \in DOMAIN requests :
     LET r == requests[rid]
     IN  /\ \A j, k \in DOMAIN r.lookups :
               j # k => r.lookups[j].url # r.lookups[k].url
         /\ Cardinality(r.pending) <= 5
         /\ \A u \in r.pending :
               \E k \in (r.i + 1)..(r.i + 5) :
                  k \in DOMAIN r.lookups /\ r.lookups[k].url = u
                     /\ r.lookups[k].from = "oembed"

\* a request that selected one track in two blocks, looked it up once, and is
\* waiting for the single lookup of its second batch
C16_Witness ==
  \E rid \in DOMAIN requests :
     LET r == requests[rid]
     IN  /\ \E b, c \in DOMAIN r.picks :
               b < c /\ PickedIds(r.picks, b)[1] \in Range(PickedIds(r.picks, c))
         /\ Len(r.lookups) = 6
         /\ r.i = 5
         /\ Cardinality(r.pending) = 1

\* the ids chosen in the blocks before block b (b counted from 1)
ChosenBefore(picks, b) ==
  UNION {Range(PickedIds(picks, c)) : c \in 1..(b - 1)}

\* C17: in the blocks of index 0, 1 and 2 no track chosen in an earlier block
\* of the response is selected while at least 5 tracks of the catalog are not
\* yet chosen, so these blocks are pairwise disjoint; a track chosen earlier
\* is reused from block index 3 on only.
C17_ExclusionaryPenalty ==
  \A rid \in DOMAIN requests :
     LET r == requests[rid]
     IN  \A b \in DOMAIN r.picks :
            (/\ b <= 3
             /\ Cardinality({catalog[k].id : k \in DOMAIN catalog} \ ChosenBefore(r.picks, b)) >= 5)
            => Range(PickedIds(r.picks, b)) \cap ChosenBefore(r.picks, b) = {}

\* a response over the whole catalog, tweak other than no_repeats, whose first
\* three blocks are pairwise disjoint and whose block of index 3 or 4 takes a
\* track chosen earlier
C17_Witness ==
  \E rid \in DOMAIN requests :
     LET r == requests[rid]
     IN  /\ Len(catalog) >= 20
         /\ r.tweak # "no_repeats"
         /\ Len(r.picks) >= 4
         /\ Cardinality(ChosenBefore(r.picks, 4)) = 15
         /\ \E b \in DOMAIN r.picks :
               b >= 4 /\ Range(PickedIds(r.picks, b)) \cap ChosenBefore(r.picks, b) # {}

\* the tweak term of the score
TweakTerm(tags, tweak) ==
  IF tweak = "more_new" THEN (IF "throwback" \in Range(tags) THEN -2 ELSE 2)
  ELSE IF tweak = "more_familiar" THEN (IF "throwback" \in Range(tags) THEN 3 ELSE 0)
  ELSE 0

BaseTerm(tags, intent) ==
  (IF intent \in Range(tags) THEN 6 ELSE 0) + (IF intent = "discovery" THEN 1 ELSE 0)

\* C18: scoreTrack is 6 when the intent is one of the track's tags, plus 1
\* when the intent is discovery, plus the tweak term: -2 / +2 for more_new and
\* +3 / 0 for more_familiar (throwback-tagged / not), 0 for none and for
\* no_repeats, which therefore score every track alike.
C18_ScoreTrack ==
  probe.fn = "scoreTrack"
  => /\ probe.result.score
          = BaseTerm(probe.result.tags, probe.arg.intent)
            + TweakTerm(probe.result.tags, probe.arg.tweak)
     /\ probe.arg.tweak \in {"none", "no_repeats"}
          => probe.result.score = BaseTerm(probe.result.tags, probe.arg.intent)

\* scoreTrack of a track tagged discovery and throwback, for the intent
\* discovery under more_new: 6 + 1 - 2
C18_Witness ==
  /\ probe.fn = "scoreTrack"
  /\ probe.arg.intent = "discovery" /\ probe.arg.tweak = "more_new"
  /\ {"discovery", "throwback"} \subseteq Range(probe.result.tags)
  /\ probe.result.score = 5

\* the weight of a tag in a situation, 0 when the situation has none
WeightOf(situation, tag) ==
  IF tag \in DOMAIN SITUATION_BIAS[situation] THEN SITUATION_BIAS[situation][tag] ELSE 0

\* sum over the tags at the positions S of the weights that are > 0: each
\* point of weight is half a point of score
RECURSIVE PositiveWeights(_, _, _)
PositiveWeights(tags, situation, S) ==
  IF S = {} THEN 0
  ELSE LET i == CHOOSE j \in S : TRUE
       IN  (IF WeightOf(situation, tags[i]) > 0 THEN WeightOf(situation, tags[i]) ELSE 0)
           + PositiveWeights(tags, situation, S \ {i})

\* the score in half points, less the base score and the duplicate penalty
SituationTerms(a, res) ==
  res.score - (2 * res.base)
  + (IF a.seen.has THEN 2 * DuplicatePenalty(a.seen.blockIndex) ELSE 0)

\* C19: for a situation other than auto the bias part of the score is the sum
\* over the track's tags of 0.5 x weight for the tags whose weight is > 0,
\* tags of negative or missing weight adding nothing, so the bias never lowers
\* the score; with situation auto the bias and fine-tuning terms are 0.
C19_PositiveBiasOnly ==
  probe.fn = "TrackScore"
  => LET a    == probe.arg
         res  == probe.result
         fine == 2 * FineTune([profile |-> res.profile], a.situation)
         bias == SituationTerms(a, res) - fine
     IN  IF a.situation = "auto"
         THEN SituationTerms(a, res) = 0
         ELSE /\ bias = PositiveWeights(res.tags, a.situation, DOMAIN res.tags)
              /\ bias >= 0

\* a track with a tag of negative weight and a tag of positive weight in the
\* situation: only the positive one counts
C19_Witness ==
  /\ probe.fn = "TrackScore"
  /\ probe.arg.situation # "auto"
  /\ \E i, j \in DOMAIN probe.result.tags :
        /\ WeightOf(probe.arg.situation, probe.result.tags[i]) < 0
        /\ WeightOf(probe.arg.situation, probe.result.tags[j]) > 0
        /\ SituationTerms(probe.arg, probe.result)
             - (2 * FineTune([profile |-> probe.result.profile], probe.arg.situation))
             = WeightOf(probe.arg.situation, probe.result.tags[j])

\* the positions of the shuffled catalog the first pass may take
Eligible(scored, tweak, seen) ==
  {i \in DOMAIN scored : ~(tweak = "no_repeats" /\ scored[i].id \in seen)}

\* position m comes before position i in the order by descending score, ties
\* in shuffle order
Before(scored, m, i) ==
  \/ scored[m].score > scored[i].score
  \/ scored[m].score = scored[i].score /\ m < i

PositionOf(scored, id) == CHOOSE i \in DOMAIN scored : scored[i].id = id

\* C20: the first pass takes the first 5 entries, in order, of the catalog
\* sorted by descending score, ties in seeded-shuffle order, the tracks of the
\* seen set removed when tweak = no_repeats; no eligible track left out has a
\* strictly higher score than a track taken, and the block lists the tracks
\* taken in non-increasing score order.
C20_GreedyTopN ==
  probe.fn = "pickTracksForIntent"
  => LET scored == probe.result.scored
         first  == probe.result.first
         E      == Eligible(scored, probe.arg.tweak, probe.result.seen)
         P(j)   == PositionOf(scored, first[j])
     IN  /\ Len(first) = Min(5, Cardinality(E))
         /\ \A j \in DOMAIN first :
               /\ first[j] \in {scored[i].id : i \in DOMAIN scored}
               /\ P(j) \in E
               /\ Cardinality({m \in E : Before(scored, m, P(j))}) = j - 1
         /\ \A j \in DOMAIN first : \A m \in E :
               scored[m].score > scored[P(j)].score
               => scored[m].id \in Range(first)
         /\ \A j \in DOMAIN first :
               j > 1 => scored[P(j - 1)].score >= scored[P(j)].score
         /\ SubSeq(probe.result.picked, 1, Len(first)) = first

\* a block under no_repeats whose first pass takes five tracks, two of them
\* with equal scores, and passes over a seen track that scores higher than
\* the first track taken
C20_Witness ==
  /\ probe.fn = "pickTracksForIntent"
  /\ probe.arg.tweak = "no_repeats"
  /\ Len(probe.result.first) = 5
  /\ LET scored == probe.result.scored
         first  == probe.result.first
     IN  /\ \E j \in 2..5 :
               scored[PositionOf(scored, first[j])].score
                 = scored[PositionOf(scored, first[j - 1])].score
         /\ \E m \in DOMAIN scored :
               /\ scored[m].id \in probe.result.seen
               /\ scored[m].score > scored[PositionOf(scored, first[1])].score

\* the array after the swaps k..Len(swaps), positions counted from 0
RECURSIVE Replay(_, _, _)
Replay(a, swaps, k) ==
  IF k > Len(swaps) THEN a
  ELSE Replay([a EXCEPT ![swaps[k].i + 1] = a[swaps[k].j + 1],
                        ![swaps[k].j + 1] = a[swaps[k].i + 1]], swaps, k + 1)

\* C21: for every seed, 0 and the block seeds that pass 2^32 - 1 included,
\* seededShuffle returns each element of its input exactly once, with every
\* swap index j in 0..i, leaves its input as it was, and gives the same order
\* for the same seed.
C21_ShufflePermutes ==
  probe.fn = "seededShuffle"
  => LET arr == probe.result.arr
         a   == probe.result.a
         seed == Add32(probe.arg.base, probe.arg.idx * 101)
     IN  /\ Len(a) = Len(arr)
         /\ \A e \in Range(arr) :
               Cardinality({k \in DOMAIN a : a[k] = e}) = 1
         /\ \A k \in DOMAIN probe.result.swaps :
               /\ 0 <= probe.result.swaps[k].j
               /\ probe.result.swaps[k].j <= probe.result.swaps[k].i
         /\ a = Replay(arr, probe.result.swaps, 1)
         /\ arr = IdsOf(SubSeq(catalog, 1, probe.arg.n))
         /\ a = seededShuffle(arr, seed)

\* the whole catalog shuffled with a block seed that passed 2^32 - 1, into an
\* order other than the catalog's
C21_Witness ==
  /\ probe.fn = "seededShuffle"
  /\ probe.arg.n = Len(catalog)
  /\ probe.arg.base = <<65535, 65300>> /\ probe.arg.idx = 3
  /\ Add32(probe.arg.base, probe.arg.idx * 101) = <<0, 67>>
  /\ probe.result.a # probe.result.arr
  /\ Range(probe.result.a) = Range(probe.result.arr)

\* C22: once a block is selected, every track picked for it, by the first
\* pass or by the backfill, is in seen and in globalSeen; the two sets are
\* equal after every block and are the union of the tracks picked so far.
C22_SeenBookkeeping ==
  probe.fn = "buildBlocksWithArtwork"
  => LET res    == probe.result
         chosen == UNION {Range(res.blocks[b]) : b \in DOMAIN res.blocks}
     IN  /\ \A b \in DOMAIN res.blocks :
               Range(res.blocks[b]) \subseteq res.seen \cap res.globalSeen
         /\ res.seen = res.globalSeen
         /\ res.seen = chosen

\* five blocks under no_repeats over the 24 tracks: the last block is filled
\* up by the backfill with a track of an earlier block
C22_Witness ==
  /\ probe.fn = "buildBlocksWithArtwork"
  /\ probe.arg.tweak = "no_repeats"
  /\ probe.arg.n = Len(catalog)
  /\ Len(probe.result.blocks) = 5
  /\ Len(probe.result.blocks[5]) = 5
  /\ Range(probe.result.blocks[5])
       \cap UNION {Range(probe.result.blocks[b]) : b \in 1..4} # {}
  /\ Cardinality(probe.result.seen) = Len(catalog)

FnvStep(h, c) ==
  LET lo == (h[2] - (h[2] % 256)) + XorBits(h[2] % 256, c, 8)
  IN  << (((lo % 256) * 256) + (h[1] * 403) + ((lo * 403) \div 65536)) % 65536,
         (lo * 403) % 65536 >>

\* the steps for the characters lo..hi of s, from h
RECURSIVE FnvSteps(_, _, _, _)
FnvSteps(s, h, lo, hi) ==
  IF lo > hi THEN h
  ELSE IF lo = hi THEN FnvStep(h, charCodeAt(s[lo]))
  ELSE LET mid  == (lo + hi) \div 2
           left == FnvSteps(s, h, lo, mid)
       IN  IF left = left THEN FnvSteps(s, left, mid + 1, hi) ELSE left

\* FNV-1a of s, from the offset 2166136261 = 33052 * 2^16 + 40389
Fnv1a(s) == FnvSteps(s, <<33052, 40389>>, 1, Len(s))

\* the keys that differ from a in one field
OneFieldChanged(a) ==
  {[a EXCEPT !.bucket = b] : b \in AllBuckets \ {a.bucket}}
  \cup {[a EXCEPT !.tweak = t] : t \in AllTweaks \ {a.tweak}}
  \cup {[a EXCEPT !.engine = e] : e \in {"my_engine", "spotify_ai"} \ {a.engine}}
  \cup {[a EXCEPT !.situation = s] : s \in AllSituations \ {a.situation}}
  \cup {[a EXCEPT !.override = o] : o \in KeyOverrides \ {a.override}}

\* C24: the seed is the unsigned 32-bit FNV-1a hash (offset 2166136261, prime
\* 16777619, mod 2^32) of "bucket|tweak|engine|situation|token", the token
\* being H:M or now; the same fields give the same seed, and changing one
\* field, the others kept, changes the seed.
C24_SeedDerivation ==
  probe.fn = "stableHash"
  => /\ probe.result.key
          = Spell[probe.arg.bucket] \o <<"|">> \o Spell[probe.arg.tweak] \o <<"|">>
            \o Spell[probe.arg.engine] \o <<"|">> \o Spell[probe.arg.situation] \o <<"|">>
            \o (IF probe.arg.override.isNull THEN <<"n", "o", "w">>
                ELSE NumberToChars(probe.arg.override.hours) \o <<":">>
                     \o NumberToChars(probe.arg.override.minutes))
     /\ probe.result.seed = Fnv1a(probe.result.key)
     /\ probe.result.seed = SeedOf(probe.arg)
     /\ \A b \in OneFieldChanged(probe.arg) : SeedOf(b) # probe.result.seed

\* the seed 3103079322 = 47349 * 2^16 + 15258 of "morning|none|my_engine|auto|8:30"
C24_Witness ==
  /\ probe.fn = "stableHash"
  /\ probe.arg.bucket = "morning" /\ probe.arg.tweak = "none"
  /\ probe.arg.engine = "my_engine" /\ probe.arg.situation = "auto"
  /\ probe.arg.override = [isNull |-> FALSE, hours |-> 8, minutes |-> 30]
  /\ probe.result.seed = <<47349, 15258>>

\* the tags of the catalog track with this id
TagsOfId(id) ==
  Range(catalog[CHOOSE k \in DOMAIN catalog : catalog[k].id = id].tags)

\* the ids of the scored tracks that carry the tag
Carrying(scored, tag) ==
  {scored[i].id : i \in {j \in DOMAIN scored : tag \in TagsOfId(scored[j].id)}}

ScoreOfId(scored, id) == scored[PositionOf(scored, id)].score

\* C25: with situation auto, in block 0 of every time bucket under every
\* tweak, each track that carries the block's intent scores above each track
\* that does not, and with at least 5 carriers in the catalog the 5 selected
\* tracks all carry it; 08:30 is in the bucket morning, whose first block has
\* the intent energy.
C25_IntentDominates ==
  /\ getTimeBucketFromMinutes((8 * 60) + 30) = "morning"
  /\ blockPlan("morning", "auto")[1].intent = "energy"
  /\ (/\ probe.fn = "pickTracksForIntent"
      /\ probe.arg.idx = 0
      /\ probe.arg.plan.situation = "auto")
     => LET scored == probe.result.scored
            all    == {scored[i].id : i \in DOMAIN scored}
            intent == blockPlan(probe.arg.plan.bucket, "auto")[1].intent
            with   == Carrying(scored, intent)
        IN  /\ \A x \in with : \A y \in all \ with :
                  ScoreOfId(scored, x) > ScoreOfId(scored, y)
            /\ Cardinality(with) >= 5
                 => /\ Len(probe.result.picked) = 5
                    /\ Range(probe.result.picked) \subseteq with

\* block 0 of the morning plan under more_new: five tracks tagged energy, one
\* of them a throwback at 4 points, above the untagged tracks at 2 points
C25_Witness ==
  /\ probe.fn = "pickTracksForIntent"
  /\ probe.arg.idx = 0
  /\ probe.arg.plan = [bucket |-> "morning", situation |-> "auto"]
  /\ probe.arg.tweak = "more_new"
  /\ Len(probe.result.picked) = 5
  /\ Range(probe.result.picked) \subseteq Carrying(probe.result.scored, "energy")
  /\ \E x \in Carrying(probe.result.scored, "energy") :
        ScoreOfId(probe.result.scored, x) = 2 * 4
  /\ \E i \in DOMAIN probe.result.scored :
        /\ "energy" \notin TagsOfId(probe.result.scored[i].id)
        /\ probe.result.scored[i].score = 2 * 2

\* C26: no track id appears twice in the track list of a block, whatever the
\* tweak, situation, seed and block index, the blocks filled up by the
\* backfill pass included.
C26_UniqueWithinBlock ==
  probe.fn = "buildBlocksWithArtwork"
  => \A b \in DOMAIN probe.result.blocks :
        \A j, k \in DOMAIN probe.result.blocks[b] :
           j # k => probe.result.blocks[b][j] # probe.result.blocks[b][k]

\* over 7 tracks under no_repeats the second block takes the 2 tracks not
\* yet seen and is filled up to 5 distinct tracks with tracks of the first
C26_Witness ==
  /\ probe.fn = "buildBlocksWithArtwork"
  /\ probe.arg.tweak = "no_repeats"
  /\ probe.arg.n = MidCatalog
  /\ Len(probe.result.blocks) >= 2
  /\ Cardinality(Range(probe.result.blocks[2])) = 5
  /\ Cardinality(Range(probe.result.blocks[2]) \ Range(probe.result.blocks[1]))
       = MidCatalog - 5
  /\ Cardinality(Range(probe.result.blocks[2]) \cap Range(probe.result.blocks[1]))
       = 10 - MidCatalog

\* C27: under concurrent requests, an entry of oembedCache stored by a
\* successful oEmbed lookup (it has artwork) and less than 24 hours old is
\* not replaced by the fallback entry (artwork_url = null) of a lookup of the
\* same URL that fails later.
C27_CacheWriteRace ==
  [][\A u \in DOMAIN oembedCache :
       (/\ oembedCache[u].artwork_url # Null
        /\ now' - oembedCache[u].cached_at < CACHE_TTL_MS)
       => oembedCache'[u].artwork_url # Null]_vars

\* C28: every request that has started eventually has its response: the
\* selection is done in the request's first turn, the loop over the unique
\* URLs advances batch by batch, and every fetch settles.
C28_RequestTerminates ==
  \A rid \in 1..LiveRequests :
     (rid \in DOMAIN requests) ~> (rid \in DOMAIN requests /\ Done(requests[rid]))

\* a response built after two batches of lookups, one of which failed
C28_Witness ==
  \E rid \in DOMAIN requests :
     LET r == requests[rid]
     IN  /\ Done(r)
         /\ Len(r.blocks) >= 4
         /\ Len(r.lookups) > 5
         /\ \E o \in r.outcomes : o.outcome = "failed"
         /\ \E o \in r.outcomes : o.outcome = "resolved"

\* C29: the request issued by a click on the quick-time button for T carries
\* time = T, with the active tweak, engine and situation of the page.
C29_QuickTimeRequest ==
  (probe.fn = "TimeMixPage" /\ probe.result.event[1] = "handleQuickTime")
     => LET p == probe.result
        IN  /\ p.request.sent
            /\ p.request.params =
                 MixParams(p.activeTweak, p.event[2], p.comparisonMode, p.situation)

\* C30: for every hour and minute of the day the hour-based getTimeBucket
\* returns for the local time h:m the bucket that the minute-based
\* getTimeBucketFromMinutes returns for h * 60 + m.
C30_ClassifiersAgree ==
  probe.fn = "getTimeBucket"
     => probe.result = getTimeBucketFromMinutes((probe.arg.hours * 60) + probe.arg.minutes)

\* the last minute before noon classified by its hour
C30_Witness ==
  /\ probe.fn = "getTimeBucket"
  /\ probe.arg = [hours |-> 11, minutes |-> 59]
  /\ probe.result = "morning"
====
